---- MODULE Spec2Model ----
(***************************************************************************)
(* Model of the command-line interpreter of js/commands/helloworld.js:     *)
(* TerminalParser (tokenizer, argument-option grammar, named/positional    *)
(* argument resolution), Command (processArgs, run) and the part of        *)
(* Terminal that dispatches a line and fires the completion step.          *)
(*                                                                         *)
(* Strings are sequences of one-character strings, so that the code's      *)
(* character-level operations (startsWith, split, regular expressions) are *)
(* computed, not assumed.  Indices into token arrays are the 0-based       *)
(* indices of the JavaScript source.                                       *)
(***************************************************************************)
EXTENDS Integers, Sequences, FiniteSets, TLC

\* ------------------------------------------------------------------------
\* Characters and strings
\* ------------------------------------------------------------------------

Digits == {"0", "1", "2", "3", "4", "5", "6", "7", "8", "9"}

\* The letters used by the inputs of this model.  None of the evaluator's
\* named constants or functions (pi, tau, phi, e, inf, sqrt, sin, ...) can
\* be spelled with them.
Letters == {"a", "b", "c", "d", "m", "r", "s", "w", "x", "y", "z"}

DigitValue(c) ==
    CASE c = "0" -> 0 [] c = "1" -> 1 [] c = "2" -> 2 [] c = "3" -> 3
      [] c = "4" -> 4 [] c = "5" -> 5 [] c = "6" -> 6 [] c = "7" -> 7
      [] c = "8" -> 8 [] c = "9" -> 9

\* element i (0-based) of array s
At(s, i) == s[i + 1]

\* Array.prototype.includes
Includes(s, x) == \E k \in 1..Len(s) : s[k] = x

\* String.prototype.startsWith
StartsWith(s, p) == Len(s) >= Len(p) /\ SubSeq(s, 1, Len(p)) = p

\* String.prototype.slice(n) for 0 <= n
Slice(s, n) == IF n >= Len(s) THEN << >> ELSE SubSeq(s, n + 1, Len(s))

\* String.prototype.split(sep) for a one-character separator
RECURSIVE SplitFrom(_, _, _, _, _)
SplitFrom(s, sep, k, cur, acc) ==
    IF k > Len(s) THEN Append(acc, cur)
    ELSE IF s[k] = sep THEN SplitFrom(s, sep, k + 1, << >>, Append(acc, cur))
    ELSE SplitFrom(s, sep, k + 1, Append(cur, s[k]), acc)

Split(s, sep) == SplitFrom(s, sep, 1, << >>, << >>)

\* the tokens of an array joined by one space (the text an expanding
\* option is expected to hold)
RECURSIVE JoinSpace(_)
JoinSpace(ts) ==
    IF Len(ts) = 0 THEN << >>
    ELSE IF Len(ts) = 1 THEN ts[1]
    ELSE ts[1] \o <<" ">> \o JoinSpace(Tail(ts))

\* ------------------------------------------------------------------------
\* JavaScript values
\* ------------------------------------------------------------------------

Undefined == [undef |-> TRUE]
Null == [null |-> TRUE]
NaN == [nan |-> TRUE]
Num(n) == [num |-> n]
Bool(b) == [bool |-> b]
Str(s) == [str |-> s]
BigIntVal(n) == [bigint |-> n]

IsNum(v) == DOMAIN v = {"num"}
IsStr(v) == DOMAIN v = {"str"}
IsBool(v) == DOMAIN v = {"bool"}

\* the sentinel class ParserError returned by the evaluator on failure
ParserError == [parserError |-> TRUE]

\* an index that is undefined
UndefIndex == -1

\* truthiness of a value, as in `if (argOption.value)` and `if (nextToken)`
Truthy(v) ==
    IF IsStr(v) THEN v.str # << >>
    ELSE IF IsNum(v) THEN v.num # 0
    ELSE IF IsBool(v) THEN v.bool
    ELSE IF DOMAIN v = {"bigint"} THEN v.bigint # 0
    ELSE FALSE

\* String(v), as in string concatenation `argOption.value + " " + value`
RECURSIVE DigitsOf(_)
DigitsOf(n) ==
    IF n < 10
    THEN <<CHOOSE c \in Digits : DigitValue(c) = n>>
    ELSE Append(DigitsOf(n \div 10), CHOOSE c \in Digits : DigitValue(c) = n % 10)

StringOf(v) ==
    IF IsStr(v) THEN v.str
    ELSE IF IsNum(v) THEN (IF v.num < 0 THEN <<"-">> \o DigitsOf(-v.num) ELSE DigitsOf(v.num))
    ELSE IF IsBool(v) THEN (IF v.bool THEN <<"t", "r", "u", "e">> ELSE <<"f", "a", "l", "s", "e">>)
    ELSE IF DOMAIN v = {"bigint"}
         THEN (IF v.bigint < 0 THEN <<"-">> \o DigitsOf(-v.bigint) ELSE DigitsOf(v.bigint))
    ELSE <<"u", "n", "d", "e", "f", "i", "n", "e", "d">>

\* ------------------------------------------------------------------------
\* TerminalParser.tokenize
\* ------------------------------------------------------------------------

apostropheCharacters == {"'", "\""}
spaceCharacters == {" ", "\t", "\n"}

endOfInputDropping(tokens, tempToken) == tokens

\* after the loop: if (tempToken != "") tokens.push(tempToken)
endOfInput(tokens, tempToken) ==
    IF tempToken # << >> THEN Append(tokens, tempToken) ELSE tokens

\* activeApostrophe is "" while no quote is open (null in the source)
RECURSIVE tokenizeFrom(_, _, _, _, _)
tokenizeFrom(input, k, tokens, tempToken, activeApostrophe) ==
    IF k > Len(input)
    THEN endOfInput(tokens, tempToken)
    ELSE LET char == input[k] IN
         IF activeApostrophe # ""
         THEN IF char = activeApostrophe
              THEN tokenizeFrom(input, k + 1, Append(tokens, tempToken), << >>, "")
              ELSE tokenizeFrom(input, k + 1, tokens, Append(tempToken, char), activeApostrophe)
         ELSE IF char \in apostropheCharacters
              THEN tokenizeFrom(input, k + 1, tokens, tempToken, char)
         ELSE IF char \in spaceCharacters
              THEN IF tempToken # << >>
                   THEN tokenizeFrom(input, k + 1, Append(tokens, tempToken), << >>, "")
                   ELSE tokenizeFrom(input, k + 1, tokens, tempToken, "")
         ELSE tokenizeFrom(input, k + 1, tokens, Append(tempToken, char), "")

\* the quote characters taken out and the rest read outside quotes
tokenizeIgnoringQuotes(input) ==
    tokenizeFrom(SelectSeq(input, LAMBDA c : c \notin apostropheCharacters),
                 1, << >>, << >>, "")

\* the empty tokens left out of the result
tokenizeDroppingEmpty(input) ==
    SelectSeq(tokenizeFrom(input, 1, << >>, << >>, ""), LAMBDA t : t # << >>)

tokenize(input) == tokenizeFrom(input, 1, << >>, << >>, "")

\* ------------------------------------------------------------------------
\* TerminalParser.parseArgOptions
\* ------------------------------------------------------------------------

RECURSIVE DecimalValue(_)
DecimalValue(ds) ==
    IF Len(ds) = 0 THEN 0
    ELSE 10 * DecimalValue(SubSeq(ds, 1, Len(ds) - 1)) + DigitValue(ds[Len(ds)])

\* the longest prefix of s made of decimal digits
RECURSIVE DigitPrefix(_)
DigitPrefix(s) ==
    IF Len(s) = 0 \/ s[1] \notin Digits THEN << >>
    ELSE <<s[1]>> \o DigitPrefix(Tail(s))

\* parseFloat on a string without fraction or exponent part: an optional
\* sign and the longest run of digits; NaN when there is no digit
ParseFloat(s) ==
    LET signed == Len(s) > 0 /\ s[1] \in {"-", "+"}
        body == IF signed THEN Tail(s) ELSE s
        ds == DigitPrefix(body)
    IN IF ds = << >> THEN NaN
       ELSE IF signed /\ s[1] = "-" THEN Num(0 - DecimalValue(ds))
       ELSE Num(DecimalValue(ds))

\* the else-if chain on the type code: <<type, typeName, numtype, stringType>>
TypeCodes == {<<"n">>, <<"i">>, <<"b", "n">>, <<"b">>, <<"s">>, <<"f">>, <<"c">>,
              <<"s", "m">>, <<"m">>, <<"e">>, <<"t">>}

TypeOfCode(code) ==
    CASE code = <<"n">> -> <<"number", "number", "undefined", "null">>
      [] code = <<"i">> -> <<"number", "integer", "integer", "null">>
      [] code = <<"b", "n">> -> <<"bigint", "integer", "undefined", "null">>
      [] code = <<"b">> -> <<"boolean", "boolean", "undefined", "null">>
      [] code = <<"s">> -> <<"string", "string", "undefined", "null">>
      [] code = <<"f">> -> <<"file", "file", "undefined", "null">>
      [] code = <<"c">> -> <<"command", "command", "undefined", "null">>
      [] code = <<"s", "m">> -> <<"square-matrix", "square-matrix", "undefined", "null">>
      [] code = <<"m">> -> <<"matrix", "matrix", "undefined", "null">>
      [] code = <<"e">> -> <<"enum", "enum", "undefined", "null">>
      [] code = <<"t">> -> <<"string", "string", "undefined", "text">>

\* The compiled option, or [thrown |-> "DeveloperError"] for an unknown
\* type code.
parseArgOptions(argString) ==
    LET optional == StartsWith(argString, <<"?">>)
        name1 == IF optional THEN Slice(argString, 1) ELSE argString
        expanding == StartsWith(name1, <<"*">>)
        name2 == IF expanding THEN Slice(name1, 1) ELSE name1
        hasType == Includes(name2, ":")
        parts == Split(name2, ":")
        name3 == IF hasType THEN parts[1] ELSE name2
        code == IF hasType THEN parts[2] ELSE <<"s">>
        ty == TypeOfCode(code)
        hasConstraint == hasType /\ Len(parts) > 2
        range == parts[3]
        rangeParts == Split(range, "~")
        isRange == hasConstraint /\ ty[1] = "number"
        min == IF ~isRange THEN Null
               ELSE IF Includes(range, "~") THEN ParseFloat(rangeParts[1])
               ELSE ParseFloat(range)
        max == IF ~isRange THEN Null
               ELSE IF Includes(range, "~") THEN ParseFloat(rangeParts[2])
               ELSE ParseFloat(range)
        enumOptions == IF hasConstraint /\ ty[1] = "enum"
                       THEN [list |-> Split(parts[3], "|")]
                       ELSE Undefined
        forms == IF Includes(name3, "=") THEN Split(name3, "=") ELSE <<name3>>
        name == IF Includes(name3, "=") THEN forms[2] ELSE name3
    IN IF hasType /\ code \notin TypeCodes
       THEN [thrown |-> "DeveloperError"]
       ELSE [name |-> name,
             type |-> ty[1],
             typeName |-> ty[2],
             numtype |-> ty[3],
             stringType |-> ty[4],
             optional |-> optional,
             min |-> min,
             max |-> max,
             expanding |-> expanding,
             default |-> Undefined,
             forms |-> forms,
             enumOptions |-> enumOptions,
             isHelp |-> (name = <<"h", "e", "l", "p">> \/ name = <<"h">>),
             tokenIndex |-> UndefIndex,
             tokenSpan |-> 0,
             value |-> Undefined,
             isManuallySetValue |-> FALSE,
             hasExpanded |-> FALSE]

\* TerminalParser.getArgOption: the 1-based position in argOptions of the
\* first option with that name or form, 0 when there is none (undefined)
getArgOption(argOptions, argName) ==
    LET hits == {k \in 1..Len(argOptions) :
                    argOptions[k].name = argName \/ Includes(argOptions[k].forms, argName)}
    IN IF hits = {} THEN 0 ELSE CHOOSE k \in hits : \A h \in hits : k <= h

\* ------------------------------------------------------------------------
\* The parsing error and the resolution state
\* ------------------------------------------------------------------------

\* parsingError.message is undefined
NoMessage == [kind |-> "none"]

\* the messages of the resolver, by kind and by the name they quote
Msg(kind, name) == [kind |-> kind, name |-> name]

\* tokenSpan of the "Too many arguments" error, tokenIndex of the
\* "is missing" error
TooManySpan == 99999
MissingIndex == 99999

\* The state a call of parseArguments works on: the option array, the shared
\* parsingError, an exception in flight ("none" while there is none), and a
\* record of what happened in order (every write of parsingError.message,
\* every value given to an option, every token a loop looked at), `cur`
\* being the token the loops are at and `phase` the loop ("named" for
\* parseNamedArgs, "positional" for the loop of parseArguments).
EmptyError == [message |-> NoMessage, tokenIndex |-> UndefIndex, tokenSpan |-> 0]

Throw(st, name) == [st EXCEPT !.thrown = name]

\* parsingError.message = msg; parsingError.tokenIndex = idx
WriteError(st, msg, idx) ==
    [st EXCEPT !.err.message = msg,
               !.err.tokenIndex = idx,
               !.log = Append(@, [ev |-> "error", message |-> msg, tokenIndex |-> idx,
                                  at |-> st.cur, phase |-> st.phase])]

\* ... and parsingError.tokenSpan = span
WriteErrorSpan(st, msg, idx, span) ==
    [WriteError(st, msg, idx) EXCEPT !.err.tokenSpan = span]

\* ------------------------------------------------------------------------
\* TerminalParser._parseNumber, for strings over Digits, Letters, "-", "+",
\* "*", "/", "^", "(" and ")" (the named constants and the literal forms
\* that need "." or an exponent are outside these inputs).  A number is
\* [val |-> n] (an integer), [frac |-> <<n, d>>] (n/d in lowest terms,
\* d > 1), [inf |-> sign], [nan |-> TRUE] or [real |-> f] (a finite value
\* of Math.f that is not rational); double arithmetic is exact on the
\* rationals these inputs produce, and -0 is not told apart from 0.
\* ------------------------------------------------------------------------

AllIn(s, set) == Len(s) > 0 /\ \A k \in 1..Len(s) : s[k] \in set

HexDigits == Digits \cup {"a", "b", "c", "d", "e", "f"}

HexDigitValue(c) ==
    CASE c \in Digits -> DigitValue(c)
      [] c = "a" -> 10 [] c = "b" -> 11 [] c = "c" -> 12
      [] c = "d" -> 13 [] c = "e" -> 14 [] c = "f" -> 15

\* parseInt(digits, base)
RECURSIVE BaseValue(_, _)
BaseValue(ds, base) ==
    IF Len(ds) = 0 THEN 0
    ELSE base * BaseValue(SubSeq(ds, 1, Len(ds) - 1), base) + HexDigitValue(ds[Len(ds)])

Abs(n) == IF n < 0 THEN 0 - n ELSE n

RECURSIVE Gcd(_, _)
Gcd(a, b) == IF b = 0 THEN a ELSE Gcd(b, a % b)

\* the number n/d, d # 0
Number(n, d) ==
    LET g == Gcd(Abs(n), Abs(d))
        sn == IF d < 0 THEN 0 - n ELSE n
    IN IF Abs(d) = g THEN [val |-> sn \div g]
       ELSE [frac |-> <<sn \div g, Abs(d) \div g>>]

\* value == ParserError is false: value is a number
IsNumber(r) == DOMAIN r \in {{"val"}, {"frac"}, {"inf"}, {"nan"}, {"real"}}

Numer(r) == IF "val" \in DOMAIN r THEN r.val ELSE r.frac[1]
Denom(r) == IF "val" \in DOMAIN r THEN 1 ELSE r.frac[2]

IsRational(r) == DOMAIN r \in {{"val"}, {"frac"}}

\* a < b, for rational or infinite operands
Less(a, b) ==
    IF "inf" \in DOMAIN a THEN a.inf < 0 /\ b # a
    ELSE IF "inf" \in DOMAIN b THEN b.inf > 0
    ELSE Numer(a) * Denom(b) < Numer(b) * Denom(a)

\* a == 0
IsZero(a) == IsRational(a) /\ Numer(a) = 0

\* the sign of a rational or infinite number
Sign(a) ==
    IF "inf" \in DOMAIN a THEN a.inf
    ELSE IF Numer(a) < 0 THEN 0 - 1 ELSE IF Numer(a) > 0 THEN 1 ELSE 0

RECURSIVE IntPow(_, _)
IntPow(n, k) == IF k = 0 THEN 1 ELSE n * IntPow(n, k - 1)

\* a ** b, for rational operands
RationalPower(a, b) ==
    IF "val" \in DOMAIN b
    THEN IF b.val >= 0 THEN Number(IntPow(Numer(a), b.val), IntPow(Denom(a), b.val))
         ELSE IF IsZero(a) THEN [inf |-> 1]
         ELSE Number(IntPow(Denom(a), 0 - b.val), IntPow(Numer(a), 0 - b.val))
    ELSE IF Numer(a) < 0 THEN [nan |-> TRUE]
    ELSE IF Numer(a) = 0 THEN (IF Numer(b) > 0 THEN [val |-> 0] ELSE [inf |-> 1])
    ELSE IF a = [val |-> 1] THEN a
    ELSE [real |-> "pow"]

\* a ** b, for rational, infinite or NaN operands
Power(a, b) ==
    IF IsZero(b) THEN [val |-> 1]
    ELSE IF "nan" \in DOMAIN a \/ "nan" \in DOMAIN b THEN [nan |-> TRUE]
    ELSE IF "inf" \in DOMAIN b
    THEN IF "inf" \in DOMAIN a \/ Less([val |-> 1], a) \/ Less(a, [val |-> 0 - 1])
         THEN (IF b.inf > 0 THEN [inf |-> 1] ELSE [val |-> 0])
         ELSE IF a \in {[val |-> 1], [val |-> 0 - 1]} THEN [nan |-> TRUE]
         ELSE (IF b.inf > 0 THEN [val |-> 0] ELSE [inf |-> 1])
    ELSE IF "inf" \in DOMAIN a
    THEN IF Sign(b) < 0 THEN [val |-> 0]
         ELSE IF a.inf < 0 /\ "val" \in DOMAIN b /\ b.val % 2 = 1 THEN a
         ELSE [inf |-> 1]
    ELSE RationalPower(a, b)

\* a + b, a * b and a / b when an operand is infinite
InfinitePlus(a, b) ==
    IF IsRational(b) \/ a = b THEN a
    ELSE IF IsRational(a) THEN b
    ELSE [nan |-> TRUE]

InfiniteTimes(a, b) ==
    IF Sign(a) * Sign(b) = 0 THEN [nan |-> TRUE] ELSE [inf |-> Sign(a) * Sign(b)]

InfiniteOver(a, b) ==
    IF IsRational(a) THEN [val |-> 0]
    ELSE IF IsRational(b) THEN [inf |-> IF Sign(b) < 0 THEN 0 - a.inf ELSE a.inf]
    ELSE [nan |-> TRUE]

\* -value
Negate(value) ==
    IF "inf" \in DOMAIN value THEN [inf |-> 0 - value.inf]
    ELSE IF DOMAIN value \in {{"nan"}, {"real"}} THEN value
    ELSE Number(0 - Numer(value), Denom(value))

\* the operator scan of one pass: [unbalanced |-> TRUE], or the last index
\* (0-based) of op at nesting depth 0, -1 when there is none (null)
RECURSIVE ScanFrom(_, _, _, _, _)
ScanFrom(s, op, i, currLevel, foundSplitIndex) ==
    IF i >= Len(s)
    THEN IF currLevel # 0 THEN [unbalanced |-> TRUE] ELSE [found |-> foundSplitIndex]
    ELSE LET char == At(s, i)
             lvl == IF char = "(" THEN currLevel + 1
                    ELSE IF char = ")" THEN currLevel - 1 ELSE currLevel
         IN IF lvl < 0 THEN [unbalanced |-> TRUE]
            ELSE ScanFrom(s, op, i + 1, lvl,
                          IF char = op /\ lvl = 0 THEN i ELSE foundSplitIndex)

operatorsByPrecedence == <<"^", "/", "*", "-", "+">>

\* in list of anti-precedence
operators == <<"+", "-", "*", "/", "^">>

\* operatorFunc(a, b), for rational operands
RationalOperator(op, a, b) ==
    CASE op = "+" -> Number(Numer(a) * Denom(b) + Numer(b) * Denom(a), Denom(a) * Denom(b))
      [] op = "-" -> Number(Numer(a) * Denom(b) - Numer(b) * Denom(a), Denom(a) * Denom(b))
      [] op = "*" -> Number(Numer(a) * Numer(b), Denom(a) * Denom(b))
      [] op = "/" -> IF ~IsZero(b) THEN Number(Numer(a) * Denom(b), Denom(a) * Numer(b))
                     ELSE IF IsZero(a) THEN [nan |-> TRUE]
                     ELSE [inf |-> Sign(a)]
      [] op = "^" -> Power(a, b)

\* a finite value that is kept by name only, or a rational
IsFinite(r) == DOMAIN r \in {{"val"}, {"frac"}, {"real"}}

\* operatorFunc(a, b), for rational, infinite or NaN operands, and for
\* finite operands one of which is kept by name only: the result is then
\* kept by the name of the operator (whether it is zero is not known; no
\* input uses such a result as an operand)
ApplyOperator(op, a, b) ==
    IF IsRational(a) /\ IsRational(b) THEN RationalOperator(op, a, b)
    ELSE IF IsFinite(a) /\ IsFinite(b)
    THEN (IF op = "^" /\ IsZero(b) THEN [val |-> 1] ELSE [real |-> op])
    ELSE IF op = "^" THEN Power(a, b)
    ELSE IF "nan" \in DOMAIN a \/ "nan" \in DOMAIN b THEN [nan |-> TRUE]
    ELSE CASE op = "+" -> InfinitePlus(a, b)
           [] op = "-" -> InfinitePlus(a, Negate(b))
           [] op = "*" -> InfiniteTimes(a, b)
           [] op = "/" -> InfiniteOver(a, b)

DividesByZeroNever(op, right) == FALSE

\* parts[1] == 0 && operatorName == "/"
DividesByZero(op, right) == IsZero(right) /\ op = "/"

\* Combine with the second part looked at first
CombineSecondFirst(op, left, right) ==
    IF ~IsNumber(right) THEN right
    ELSE IF ~IsNumber(left) THEN left
    ELSE IF DividesByZero(op, right) THEN [fail |-> "divide-by-zero"]
    ELSE ApplyOperator(op, left, right)

\* the end of one operator pass, after both parts were parsed
Combine(op, left, right) ==
    IF ~IsNumber(left) THEN left
    ELSE IF ~IsNumber(right) THEN right
    ELSE IF DividesByZero(op, right) THEN [fail |-> "divide-by-zero"]
    ELSE ApplyOperator(op, left, right)

\* the keys of allowedFunctions, in their order
allowedFunctions ==
    << <<"s", "q", "r", "t">>, <<"s", "i", "n">>, <<"c", "o", "s">>, <<"t", "a", "n">>,
       <<"a", "r", "c", "s", "i", "n">>, <<"a", "r", "c", "c", "o", "s">>,
       <<"a", "r", "c", "t", "a", "n">>, <<"s", "i", "n", "h">>, <<"c", "o", "s", "h">>,
       <<"t", "a", "n", "h">>, <<"a", "r", "c", "s", "i", "n", "h">>,
       <<"a", "r", "c", "c", "o", "s", "h">>, <<"a", "r", "c", "t", "a", "n", "h">>,
       << >> >>

\* abortThisExecution stays false
abortNever(numberPart, i, openCount) == FALSE

\* the loop over numberPart that sets abortThisExecution
RECURSIVE abortThisExecution(_, _, _)
abortThisExecution(numberPart, i, openCount) ==
    IF i >= Len(numberPart) THEN FALSE
    ELSE LET char == At(numberPart, i)
             cnt == IF char = "(" THEN openCount + 1
                    ELSE IF char = ")" THEN openCount - 1 ELSE openCount
         IN cnt < 0 \/ abortThisExecution(numberPart, i + 1, cnt)

\* some constraint.if(value) of the function holds, for a rational n
Constraint(functionStr, n) ==
    LET one == [val |-> 1]
        minusOne == [val |-> 0 - 1]
        zero == [val |-> 0]
    IN CASE functionStr = <<"s", "q", "r", "t">> -> Less(n, zero)
         [] functionStr \in {<<"a", "r", "c", "s", "i", "n">>, <<"a", "r", "c", "c", "o", "s">>}
              -> Less(n, minusOne) \/ Less(one, n)
         [] functionStr = <<"a", "r", "c", "c", "o", "s", "h">> -> Less(n, one)
         [] functionStr = <<"a", "r", "c", "t", "a", "n", "h">>
              -> ~Less(minusOne, n) \/ ~Less(n, one)
         [] OTHER -> FALSE

IsSquare(n) == n >= 0 /\ \E k \in 0..n : k * k = n
Root(n) == CHOOSE k \in 0..n : k * k = n

\* func.compute(value), for a rational n inside the domain
compute(functionStr, n) ==
    CASE functionStr = << >> -> n
      [] functionStr = <<"s", "q", "r", "t">> ->
            IF IsSquare(Numer(n)) /\ IsSquare(Denom(n))
            THEN Number(Root(Numer(n)), Root(Denom(n)))
            ELSE [real |-> "sqrt"]
      [] functionStr \in {<<"c", "o", "s">>, <<"c", "o", "s", "h">>} ->
            IF IsZero(n) THEN [val |-> 1] ELSE [real |-> "cos"]
      [] functionStr \in {<<"a", "r", "c", "c", "o", "s">>,
                          <<"a", "r", "c", "c", "o", "s", "h">>} ->
            IF n = [val |-> 1] THEN [val |-> 0] ELSE [real |-> "arccos"]
      [] OTHER -> IF IsZero(n) THEN [val |-> 0] ELSE [real |-> "sin"]

\* the end of the function-call branch, after value = _parseNumber(numberPart)
CallValue(functionStr, value) ==
    IF ~IsNumber(value) THEN value
    ELSE IF Constraint(functionStr, value) THEN [fail |-> "domain"]
    ELSE compute(functionStr, value)

\* the first of a non-empty set of positions
First(positions) == CHOOSE j \in positions : \A k \in positions : j <= k

\* numberString.slice(functionStr.length + 1, -1)
numberPart(s, functionStr) == SubSeq(s, Len(functionStr) + 2, Len(s) - 1)

\* the functions whose pass of the loop over allowedFunctions does not end
\* before the call of _parseNumber
Calls(s) ==
    {j \in 1..Len(allowedFunctions) :
        /\ StartsWith(s, allowedFunctions[j] \o <<"(">>)
        /\ ~abortThisExecution(numberPart(s, allowedFunctions[j]), 0, 0)}

\* the operators whose pass finds a split index
Splits(s) ==
    {o \in 1..Len(operators) : ScanFrom(s, operators[o], 0, 0, -1).found # -1}

\* The result is a number, [fail |-> kind] (the sentinel, after error()
\* was called with a message of that kind) or [thrown |-> name].
RECURSIVE _parseNumber(_)

\* one operator pass that found the split index
SplitAt(s, op, foundSplitIndex) ==
    Combine(op, _parseNumber(Str(SubSeq(s, 1, foundSplitIndex))),
            _parseNumber(Str(Slice(s, foundSplitIndex + 1))))

\* the loop over operators: the first pass already ends it when the
\* parentheses are unbalanced, the others when they find a split index
ParseOperators(s) ==
    IF "unbalanced" \in DOMAIN ScanFrom(s, operators[1], 0, 0, -1)
    THEN [fail |-> "unbalanced"]
    ELSE IF Splits(s) = {} THEN [fail |-> "invalid-number"]
    ELSE SplitAt(s, operators[First(Splits(s))],
                 ScanFrom(s, operators[First(Splits(s))], 0, 0, -1).found)

\* the literal forms and the operator passes
ParseLiteral(s) ==
    IF AllIn(s, Digits) THEN [val |-> DecimalValue(s)]
    ELSE IF StartsWith(s, <<"0", "x">>) /\ AllIn(Slice(s, 2), HexDigits)
    THEN [val |-> BaseValue(Slice(s, 2), 16)]
    ELSE IF StartsWith(s, <<"0", "b">>) /\ AllIn(Slice(s, 2), {"0", "1"})
    THEN [val |-> BaseValue(Slice(s, 2), 2)]
    ELSE ParseOperators(s)

\* the loop over allowedFunctions
ParseCall(s) ==
    IF Calls(s) = {} THEN ParseLiteral(s)
    ELSE CallValue(allowedFunctions[First(Calls(s))],
                   _parseNumber(Str(numberPart(s, allowedFunctions[First(Calls(s))]))))

\* the value as it is
KeepValue(value) == value

\* value == ParserError ? value : -value
NegateValue(value) == IF ~IsNumber(value) THEN value ELSE Negate(value)

_parseNumber(numberString) ==
    IF ~IsStr(numberString)
    THEN \* numberString.startsWith is not a function
         [thrown |-> "TypeError"]
    ELSE LET s == numberString.str IN
         IF s = <<"i", "n", "f">> THEN [fail |-> "infinity"]
         ELSE IF StartsWith(s, <<"-">>) THEN NegateValue(_parseNumber(Str(Slice(s, 1))))
         ELSE ParseCall(s)

\* ------------------------------------------------------------------------
\* TerminalParser._parseArgumentValue
\* ------------------------------------------------------------------------

CmdName == <<"c", "m", "d">>
ClusterName == <<"d", "d">>
NotFoundName == <<"c", "m", "d", "n", "o", "t", "f", "o", "u", "n", "d">>
HelloName == <<"h", "e", "l", "l", "o", "w", "o", "r", "l", "d">>
AddName == <<"a", "d", "d">>
StringName == <<"s", "s">>
PlainName == <<"p", "f">>

\* the external predicates: the files that exist, and the names of the
\* commands of terminal.commandData
ExistingFiles == {<<"x">>}
CommandNames == {CmdName, ClusterName, NotFoundName, HelloName, AddName,
                 StringName, PlainName}

\* terminal.fileExists(value): FilePath.from of a non-string is an Error
\* object without items, and reading items[0] of it throws
fileExists(value) == IsStr(value) /\ value.str \in ExistingFiles

\* terminal.commandExists(value)
commandExists(value) == IsStr(value) /\ value.str \in CommandNames

\* BigInt(value): [val |-> n], or [thrown |-> "SyntaxError"]
ToBigInt(value) ==
    IF IsBool(value) THEN [val |-> IF value.bool THEN 1 ELSE 0]
    ELSE LET s == value.str IN
         IF s = << >> THEN [val |-> 0]
         ELSE IF AllIn(s, Digits) THEN [val |-> DecimalValue(s)]
         ELSE IF s[1] \in {"-", "+"} /\ AllIn(Tail(s), Digits)
         THEN [val |-> IF s[1] = "-" THEN 0 - DecimalValue(Tail(s)) ELSE DecimalValue(Tail(s))]
         ELSE IF StartsWith(s, <<"0", "x">>) /\ AllIn(Slice(s, 2), HexDigits)
         THEN [val |-> BaseValue(Slice(s, 2), 16)]
         ELSE IF StartsWith(s, <<"0", "b">>) /\ AllIn(Slice(s, 2), {"0", "1"})
         THEN [val |-> BaseValue(Slice(s, 2), 2)]
         ELSE [thrown |-> "SyntaxError"]

\* addVal of _parseArgumentValue, on option k (1-based position in opts)
addVal(st, k, value) ==
    LET argOption == st.opts[k]
        newValue == IF argOption.expanding /\ Truthy(argOption.value)
                    THEN Str(StringOf(argOption.value) \o <<" ">> \o StringOf(value))
                    ELSE value
    IN [st EXCEPT !.opts[k].value = newValue,
                  !.opts[k].isManuallySetValue = TRUE,
                  !.log = Append(@, [ev |-> "set", opt |-> k, value |-> newValue,
                                     at |-> st.cur, phase |-> st.phase,
                                     afterError |-> st.err.message # NoMessage])]

\* error of _parseArgumentValue with the position left as it is
errorUnplaced(st, k, msg) ==
    [st EXCEPT !.err.message = msg,
               !.log = Append(@, [ev |-> "error", message |-> msg,
                                  tokenIndex |-> st.err.tokenIndex,
                                  at |-> st.cur, phase |-> st.phase])]

\* error of _parseArgumentValue
error(st, k, msg) ==
    WriteErrorSpan(st, msg, st.opts[k].tokenIndex, st.opts[k].tokenSpan)

trueForms == {Str(<<"t", "r", "u", "e">>), Bool(TRUE), Str(<<"1">>)}
falseForms == {Str(<<"f", "a", "l", "s", "e">>), Bool(FALSE), Str(<<"0">>)}

\* BelowMin with the lower bound excluded from the range
BelowMinExclusive(num, min) == IsNum(min) /\ num <= min.num

\* comparisons with a bound that may be null or NaN
BelowMin(num, min) == IsNum(min) /\ num < min.num
AboveMax(num, max) == IsNum(max) /\ num > max.num

\* the branch of type "number", after num = this._parseNumber(value, ...)
NumberValue(st, k, num) ==
    IF "thrown" \in DOMAIN num THEN Throw(st, num.thrown)
    ELSE IF "fail" \in DOMAIN num THEN error(st, k, Msg(num.fail, st.opts[k].name))
    ELSE IF DOMAIN num \in {{"inf"}, {"nan"}}
    THEN \* !Number.isFinite(num)
         error(st, k, Msg("infinity-isnt", st.opts[k].name))
    ELSE IF BelowMin(num.val, st.opts[k].min)
    THEN error(st, k, Msg("at-least", st.opts[k].name))
    ELSE IF AboveMax(num.val, st.opts[k].max)
    THEN error(st, k, Msg("at-most", st.opts[k].name))
    ELSE addVal(st, k, Num(num.val))

\* the branch of type "bigint", after BigInt(value)
BigIntValue(st, k, big) ==
    IF "thrown" \in DOMAIN big THEN error(st, k, Msg("expected-integer", st.opts[k].name))
    ELSE addVal(st, k, BigIntVal(big.val))

_parseArgumentValue(st, k, value) ==
    LET argOption == st.opts[k]
        name == argOption.name
    IN
    IF argOption.type = "number"
    THEN NumberValue(st, k, _parseNumber(value))
    ELSE IF argOption.type = "boolean"
    THEN IF value \notin (trueForms \cup falseForms)
         THEN error(st, k, Msg("expected-boolean", name))
         ELSE addVal(st, k, Bool(value \in trueForms))
    ELSE IF argOption.type = "bigint"
    THEN BigIntValue(st, k, ToBigInt(value))
    ELSE IF argOption.type = "file"
    THEN IF ~IsStr(value) THEN Throw(st, "TypeError")
         ELSE IF ~fileExists(value) THEN error(st, k, Msg("file-not-found", StringOf(value)))
         ELSE addVal(st, k, value)
    ELSE IF argOption.type = "command"
    THEN IF ~commandExists(value) THEN error(st, k, Msg("command-not-found", StringOf(value)))
         ELSE addVal(st, k, value)
    ELSE IF argOption.type = "enum"
    THEN IF argOption.enumOptions = Undefined THEN Throw(st, "TypeError")
         ELSE IF ~(IsStr(value) /\ Includes(argOption.enumOptions.list, value.str))
         THEN error(st, k, Msg("invalid-option", StringOf(value)))
         ELSE addVal(st, k, value)
    ELSE IF argOption.type \in {"matrix", "square-matrix"}
    THEN \* no value over the characters of this model starts with "[",
         \* which the matrix pattern requires
         error(st, k, Msg("invalid-matrix", name))
    ELSE addVal(st, k, value)

\* ------------------------------------------------------------------------
\* TerminalParser.parseNamedArgs
\* ------------------------------------------------------------------------

AsciiLetters == {"a", "b", "c", "d", "e", "f", "g", "h", "i", "j", "k", "l", "m",
                 "n", "o", "p", "q", "r", "s", "t", "u", "v", "w", "x", "y", "z"}

\* currToken.match(/^--?[a-zA-Z][a-zA-Z0-9:_\-:.]*$/g)
IsFlagToken(tok) ==
    /\ StartsWith(tok, <<"-">>)
    /\ LET rest == IF StartsWith(tok, <<"-", "-">>) THEN Slice(tok, 2) ELSE Slice(tok, 1)
       IN /\ Len(rest) > 0
          /\ rest[1] \in AsciiLetters
          /\ \A k \in 2..Len(rest) :
                rest[k] \in AsciiLetters \cup Digits \cup {":", "_", "-", "."}

\* tokens[i + 1]: a string, or undefined past the end
NextToken(tokens, i) == IF i + 1 < Len(tokens) THEN Str(At(tokens, i + 1)) ELSE Undefined

\* the closure handleArg of iteration i
handleArg(st, tokens, i, name) ==
    LET k == getArgOption(st.opts, name)
        nextToken == NextToken(tokens, i)
    IN IF k = 0
       THEN WriteError(st, Msg("unexpected", name), i)
       ELSE IF ~st.opts[k].optional
       THEN WriteErrorSpan([st EXCEPT !.opts[k].tokenIndex = i],
                           Msg("not-optional", st.opts[k].name), i, 1)
       ELSE IF st.opts[k].type = "boolean"
       THEN [_parseArgumentValue([st EXCEPT !.opts[k].tokenIndex = i], k, Bool(TRUE))
                EXCEPT !.deleteNext = FALSE]
       ELSE IF Truthy(nextToken)
       THEN _parseArgumentValue([st EXCEPT !.opts[k].tokenIndex = i,
                                           !.opts[k].tokenSpan = 1], k, nextToken)
       ELSE WriteError(st, Msg("expects-value", st.opts[k].name), i + 1)

RECURSIVE ClusterFrom(_, _, _, _)

\* character j of a cluster: the option it names, if any, is given true
ClusterSet(st, i, k) ==
    IF k # 0
    THEN _parseArgumentValue([st EXCEPT !.opts[k].tokenIndex = i], k, Bool(TRUE))
    ELSE st

\* character j of a cluster: handleArg for the last character, the checks
\* for the others (s1 is the state after ClusterSet)
ClusterCheck(s1, tokens, i, j, k, char) ==
    IF s1.thrown # "none" THEN s1
    ELSE IF j = Len(At(tokens, i)) - 1
    THEN handleArg(s1, tokens, i, <<char>>)
    ELSE IF k = 0
    THEN WriteError(s1, Msg("unexpected", <<char>>), i)
    ELSE IF s1.opts[k].type # "boolean"
    THEN WriteError(s1, Msg("not-boolean", <<char>>), i)
    ELSE s1

\* character j of a cluster: `if (parsingError.message) return null`, else
\* the next character
ClusterNext(s2, tokens, i, j) ==
    IF s2.thrown # "none" THEN s2
    ELSE IF s2.err.message # NoMessage THEN [s2 EXCEPT !.returned = TRUE]
    ELSE ClusterFrom(s2, tokens, i, j + 1)

\* the loop over the characters of a clustered token, from character j
ClusterFrom(st, tokens, i, j) ==
    LET currToken == At(tokens, i) IN
    IF j >= Len(currToken) THEN st
    ELSE LET char == At(currToken, j)
             k == getArgOption(st.opts, <<char>>)
         IN IF char = "-" THEN ClusterFrom(st, tokens, i, j + 1)
            ELSE ClusterNext(ClusterCheck(ClusterSet(st, i, k), tokens, i, j, k, char),
                             tokens, i, j)

\* deleteIndeces.push(i), and i + 1 if deleteNext, unless the token ended
\* the call (s1 is the state after the flag was handled)
PushDeleteIndeces(s1, i) ==
    IF s1.thrown # "none" \/ s1.returned THEN s1
    ELSE [s1 EXCEPT !.deleteIndeces =
             IF s1.deleteNext THEN @ \o <<i, i + 1>> ELSE Append(@, i)]

\* the body of iteration i for a token that matches the flag pattern
FlagToken(st, tokens, i) ==
    LET currToken == At(tokens, i)
    IN PushDeleteIndeces(
           IF StartsWith(currToken, <<"-", "-">>)
           THEN handleArg(st, tokens, i, Slice(currToken, 2))
           ELSE IF Len(currToken) = 2
           THEN handleArg(st, tokens, i, Slice(currToken, 1))
           ELSE ClusterFrom(st, tokens, i, 0),
           i)

RECURSIVE NamedArgsFrom(_, _, _)

\* the end of iteration i: `if (parsingError.message) return null`, else
\* the next token
NamedArgsNext(s1, tokens, i) ==
    IF s1.thrown # "none" \/ s1.returned THEN s1
    ELSE IF s1.err.message # NoMessage THEN [s1 EXCEPT !.returned = TRUE]
    ELSE NamedArgsFrom(s1, tokens, i + 1)

\* iteration i for a token in state s0
NamedArgsToken(s0, tokens, i) ==
    NamedArgsNext(IF IsFlagToken(At(tokens, i)) THEN FlagToken(s0, tokens, i) ELSE s0,
                  tokens, i)

\* the loop of parseNamedArgs from iteration i; `returned` when it returned
\* null
NamedArgsFrom(st, tokens, i) ==
    IF i >= Len(tokens) THEN st
    ELSE NamedArgsToken(
             [st EXCEPT !.cur = i, !.deleteNext = TRUE,
                        !.log = Append(@, [ev |-> "token", at |-> i, phase |-> st.phase])],
             tokens, i)

parseNamedArgs(st, tokens) == NamedArgsFrom(st, tokens, 0)

\* ------------------------------------------------------------------------
\* TerminalParser.parseArguments
\* ------------------------------------------------------------------------

\* what parseArguments returned, NotCalled before the call
VARIABLE resolution

NotCalled == [notCalled |-> TRUE]

\* the option objects of the previous call used again, the values, set-flags
\* and token indices they hold included, instead of new ones
MapArgOptionsReused(args) ==
    IF resolution = NotCalled \/ resolution.thrown # "none"
    THEN [k \in 1..Len(args) |-> parseArgOptions(args[k])]
    ELSE resolution.opts

\* argsArray.map(this.parseArgOptions)
MapArgOptions(args) == [k \in 1..Len(args) |-> parseArgOptions(args[k])]

\* Object.entries(defaultValues).forEach(...): default and value of the
\* named option; reading a property of an option that does not exist throws
RECURSIVE ApplyDefaults(_, _, _)
ApplyDefaults(st, defaultValues, d) ==
    IF d > Len(defaultValues) \/ st.thrown # "none" THEN st
    ELSE LET k == getArgOption(st.opts, defaultValues[d].name) IN
         IF k = 0 THEN Throw(st, "TypeError")
         ELSE ApplyDefaults([st EXCEPT !.opts[k].default = defaultValues[d].value,
                                       !.opts[k].value = defaultValues[d].value],
                            defaultValues, d + 1)

\* ignoreIndeces after ignoreIndeces.push(0)
IgnoreIndeces(st) == {st.deleteIndeces[k] : k \in 1..Len(st.deleteIndeces)} \cup {0}

\* TooManyArguments reporting the number of options instead of the token
TooManyArgumentsAtOption(st, i) ==
    WriteErrorSpan(st, [kind |-> "too-many"], Len(st.opts) + 1, TooManySpan)

\* the branch `if (!argOption)` of the positional loop
TooManyArguments(st, i) == WriteErrorSpan(st, [kind |-> "too-many"], i, TooManySpan)

\* the bookkeeping of the positional loop before the value is parsed
TakeToken(st, k, i) ==
    IF st.opts[k].expanding
    THEN IF ~st.opts[k].hasExpanded
         THEN [st EXCEPT !.opts[k].tokenIndex = i,
                         !.opts[k].tokenSpan = 0,
                         !.opts[k].hasExpanded = TRUE]
         ELSE [st EXCEPT !.opts[k].tokenSpan = @ + 1]
    ELSE [st EXCEPT !.opts[k].tokenIndex = i]

\* argOptionIndex after the iteration
NextArgOptionIndex(st, argOptionIndex) ==
    IF st.opts[argOptionIndex + 1].expanding THEN argOptionIndex ELSE argOptionIndex + 1

\* MissingArguments without the return inside the loop: the last missing
\* option is the one reported
MissingArgumentsLast(st) ==
    LET missing == {k \in 1..Len(st.opts) :
                       ~st.opts[k].optional /\ ~st.opts[k].isManuallySetValue}
    IN IF missing = {} THEN st
       ELSE LET last == CHOOSE k \in missing : \A m \in missing : k >= m
            IN WriteError(st, [kind |-> "missing", name |-> st.opts[last].name,
                               typeName |-> st.opts[last].typeName], MissingIndex)

\* check for missing required arguments
MissingArguments(st) ==
    LET missing == {k \in 1..Len(st.opts) :
                       ~st.opts[k].optional /\ ~st.opts[k].isManuallySetValue}
    IN IF missing = {} THEN st
       ELSE LET first == CHOOSE k \in missing : \A m \in missing : k <= m
            IN WriteError(st, [kind |-> "missing", name |-> st.opts[first].name,
                               typeName |-> st.opts[first].typeName], MissingIndex)

\* the positional loop from iteration i, then the check for missing
\* arguments
RECURSIVE PositionalFrom(_, _, _, _)

\* the end of iteration i: return on an error, else the next token (s1 is
\* the state after the value was parsed)
PositionalNext(s1, tokens, i, argOptionIndex) ==
    IF s1.thrown # "none" \/ s1.err.message # NoMessage THEN s1
    ELSE PositionalFrom(s1, tokens, i + 1, argOptionIndex)

\* iteration i for a token that is not ignored, in state s0
PositionalToken(s0, tokens, i, argOptionIndex) ==
    IF argOptionIndex >= Len(s0.opts) THEN TooManyArguments(s0, i)
    ELSE PositionalNext(
             _parseArgumentValue(TakeToken(s0, argOptionIndex + 1, i),
                                 argOptionIndex + 1, Str(At(tokens, i))),
             tokens, i, NextArgOptionIndex(s0, argOptionIndex))

PositionalFrom(st, tokens, i, argOptionIndex) ==
    IF i >= Len(tokens) THEN MissingArguments(st)
    ELSE IF i \in IgnoreIndeces(st) THEN PositionalFrom(st, tokens, i + 1, argOptionIndex)
    ELSE PositionalToken(
             [st EXCEPT !.cur = i,
                        !.log = Append(@, [ev |-> "token", at |-> i, phase |-> st.phase])],
             tokens, i, argOptionIndex)

\* the positional pass and the check for missing arguments, unless the named
\* pass ended with an error (s2 is the state after parseNamedArgs)
PositionalPass(s2, tempTokens) ==
    IF s2.thrown # "none" \/ s2.err.message # NoMessage THEN s2
    ELSE PositionalFrom([s2 EXCEPT !.phase = "positional"], tempTokens, 0, 0)

\* the named pass and what follows it (s1 is the state after the defaults
\* were applied)
NamedPass(s1, tempTokens) ==
    IF s1.thrown # "none" THEN s1
    ELSE PositionalPass(parseNamedArgs(s1, tempTokens), tempTokens)

\* The state parseArguments returns with: opts and err are the returned
\* {argOptions, parsingError}; thrown is the exception it raised instead, if
\* any.
parseArguments(tempTokens, command) ==
    LET argOptions == MapArgOptions(command.args)
        st0 == [opts |-> argOptions, err |-> EmptyError, thrown |-> "none",
                log |-> << >>, cur |-> UndefIndex, phase |-> "named",
                deleteIndeces |-> << >>,
                deleteNext |-> TRUE, returned |-> FALSE]
    IN IF \E k \in 1..Len(argOptions) : "thrown" \in DOMAIN argOptions[k]
       THEN [st0 EXCEPT !.opts = << >>, !.thrown = "DeveloperError"]
       ELSE NamedPass(ApplyDefaults(st0, command.defaultValues, 1), tempTokens)

\* ------------------------------------------------------------------------
\* Commands and inputs of the resolver
\* ------------------------------------------------------------------------

\* the largest number of tokens after the command name
MaxArgs == 3

\* a command as parseArguments reads it: its name, the argument
\* specification strings in declaration order and the default values
Cmd(args, defaultValues) == [name |-> CmdName, args |-> args, defaultValues |-> defaultValues]

\* "a:n:1~100", "?b:b"
RangeCommand ==
    Cmd(<< <<"a", ":", "n", ":", "1", "~", "1", "0", "0">>,
           <<"?", "b", ":", "b">> >>, << >>)

\* "a:n:5"
ExactCommand == Cmd(<< <<"a", ":", "n", ":", "5">> >>, << >>)

\* "?a:n", "b:n"
FlagFirstCommand ==
    Cmd(<< <<"?", "a", ":", "n">>, <<"b", ":", "n">> >>, << >>)

\* "?b:b", "?n:n", "?s", "?x:e:y|z", "r:b"
ClusterCommand ==
    Cmd(<< <<"?", "b", ":", "b">>, <<"?", "n", ":", "n">>, <<"?", "s">>,
           <<"?", "x", ":", "e", ":", "y", "|", "z">>, <<"r", ":", "b">> >>, << >>)

\* "?s", "?d=dd:s"
StringCommand ==
    Cmd(<< <<"?", "s">>, <<"?", "d", "=", "d", "d", ":", "s">> >>, << >>)

\* "a:n", "*w", "?z"
ExpandingCommand ==
    Cmd(<< <<"a", ":", "n">>, <<"*", "w">>, <<"?", "z">> >>, << >>)

\* "?*w" with the default value "d"
DefaultCommand ==
    Cmd(<< <<"?", "*", "w">> >>, << [name |-> <<"w">>, value |-> Str(<<"d">>)] >>)

\* "a:n", "b:n"
AddCommand == Cmd(<< <<"a", ":", "n">>, <<"b", ":", "n">> >>, << >>)

\* "?b:b"
SwitchCommand == Cmd(<< <<"?", "b", ":", "b">> >>, << >>)

Commands == {RangeCommand, ExactCommand, FlagFirstCommand, ClusterCommand,
             StringCommand, ExpandingCommand, DefaultCommand, SwitchCommand}

\* the tokens tried after the name of each command
Vocabulary(c) ==
    IF c = RangeCommand
    THEN {<<"5", "0">>, <<"1", "5", "0">>, <<"1">>, <<"1", "0", "0">>, <<"0">>,
          <<"1", "0", "1">>, <<"-", "b">>, <<"-", "5">>}
    ELSE IF c = ExactCommand
    THEN {<<"5">>, <<"4">>, <<"6">>, <<"7", "-", "2">>, <<"x">>}
    ELSE IF c = FlagFirstCommand
    THEN {<<"-", "a">>, <<"-", "b">>, <<"5">>, <<"7">>, <<"2", "*", "3">>}
    ELSE IF c = ClusterCommand
    THEN {<<"-", "b", "n">>, <<"-", "n", "b">>, <<"-", "s", "b">>, <<"-", "x", "b">>,
          <<"-", "b", "x">>, <<"-", "r", "b">>, <<"-", "b", "r">>, <<"-", "b", "s">>,
          <<"-", "b">>, <<"y">>, <<"1">>, <<"t", "r", "u", "e">>}
    ELSE IF c = StringCommand
    THEN {<<"-", "s">>, <<"-", "-", "d", "d">>, <<"-", "d">>, << >>, <<"x">>,
          <<"-", "w">>}
    ELSE IF c = ExpandingCommand
    THEN {<<"5">>, <<"x">>, << >>, <<"y">>, <<"-", "z">>, <<"-", "w">>}
    ELSE IF c = SwitchCommand
    THEN {<<"-", "b">>, <<"t", "r", "u", "e">>, <<"0">>, <<"x">>}
    ELSE {<<"x">>, <<"y">>, << >>}

RECURSIVE TokenSeqs(_, _)
TokenSeqs(voc, n) ==
    IF n = 0 THEN {<< >>}
    ELSE LET shorter == TokenSeqs(voc, n - 1)
         IN shorter \cup {Append(ts, t) : ts \in {x \in shorter : Len(x) = n - 1}, t \in voc}

\* the token arrays of a command: its name, then at most MaxArgs tokens
Inputs(c) == {<<c.name>> \o ts : ts \in TokenSeqs(Vocabulary(c), MaxArgs)}

\* ------------------------------------------------------------------------
\* The terminal: registry, output, completion
\* ------------------------------------------------------------------------

\* the largest number of lines entered
MaxLines == 2

\* the largest number of Control-c presses in the prompt of the next line
MaxInterrupts == 1

\* the largest number of steps (print, onInterrupt, sleep, prompt) the
\* handlers take in all
MaxHandlerSteps == 2

\* new Command(name, callback, info): callback is the name of the
\* constructor of the handler, "AsyncFunction" for an async function and
\* "Function" for any other function
Registered(name, cmd, rawArgMode, callback) ==
    [name |-> name, args |-> cmd.args, defaultValues |-> cmd.defaultValues,
     info |-> [rawArgMode |-> rawArgMode], callback |-> callback]

\* terminal.commandData with the commands loaded: "cmd" takes a:n:1~100 and
\* ?b:b, "dd" the options of ClusterCommand, "add" a:n and b:n, "ss" ?s and
\* ?d=dd:s; "helloworld" is in raw-arg mode; the handler of "pf" is not an
\* async function; "cmdnotfound" is the command run for unknown names
commandData ==
    {Registered(CmdName, RangeCommand, FALSE, "AsyncFunction"),
     Registered(ClusterName, ClusterCommand, FALSE, "AsyncFunction"),
     Registered(AddName, AddCommand, FALSE, "AsyncFunction"),
     Registered(StringName, StringCommand, FALSE, "AsyncFunction"),
     Registered(HelloName, Cmd(<< >>, << >>), TRUE, "AsyncFunction"),
     Registered(PlainName, Cmd(<< >>, << >>), FALSE, "Function"),
     Registered(NotFoundName, Cmd(<< >>, << >>), FALSE, "AsyncFunction")}

\* Terminal.getCommand, for a name that exists
getCommand(commandName) == CHOOSE c \in commandData : c.name = commandName

VarChars == AsciiLetters \cup Digits

\* the longest prefix [a-zA-Z][a-zA-Z0-9]* of the text after the "$"
RECURSIVE AlnumPrefix(_)
AlnumPrefix(s) ==
    IF Len(s) = 0 \/ s[1] \notin VarChars THEN << >>
    ELSE <<s[1]>> \o AlnumPrefix(Tail(s))

\* TerminalParser.isVariable: /^\$[a-zA-Z][a-zA-Z0-9]*$/
isVariable(token) ==
    /\ Len(token) >= 2
    /\ token[1] = "$"
    /\ token[2] \in AsciiLetters
    /\ \A k \in 3..Len(token) : token[k] \in VarChars

RECURSIVE SkipSpaces(_)
SkipSpaces(s) ==
    IF Len(s) > 0 /\ s[1] \in spaceCharacters THEN SkipSpaces(Tail(s)) ELSE s

\* TerminalParser.commandIsAssignment: /^\$[a-zA-Z][a-zA-Z0-9]*\s*=/
commandIsAssignment(text) ==
    /\ Len(text) >= 2
    /\ text[1] = "$"
    /\ text[2] \in AsciiLetters
    /\ StartsWith(SkipSpaces(Slice(text, 1 + Len(AlnumPrefix(Tail(text))))), <<"=">>)

\* TerminalParser.extractVariableName
extractVariableName(text) == AlnumPrefix(Tail(text))

\* TerminalParser.extractAssignment, for a text that is an assignment:
\* command.split("=", 2)[1]
extractAssignment(text) ==
    [name |-> extractVariableName(text), value |-> Split(text, "=")[2]]

\* the number of times each effect of the completion step happened
NoEffects == [save |-> 0, updatePath |-> 0, prompt |-> 0]

\* Terminal.print: the text goes to the variable of the running assignment
\* when the channel is CACHE_AND_USER (writeToOutputCache), and to the
\* display
printCacheOnly(t, text) ==
    IF t.outputChannel = "cache_and_user"
    THEN [t EXCEPT !.variableCache[t.outputCacheVarName] =
                       [out |-> (IF @ = Undefined THEN << >> ELSE @.out) \o <<text>>]]
    ELSE [t EXCEPT !.parentNode = Append(@, text)]

print(t, text) ==
    LET cached == IF t.outputChannel = "cache_and_user"
                  THEN [t EXCEPT !.variableCache[t.outputCacheVarName] =
                                     [out |-> (IF @ = Undefined THEN << >> ELSE @.out)
                                              \o <<text>>]]
                  ELSE t
    IN [cached EXCEPT !.parentNode = Append(@, text)]

\* Terminal.printError
printError(t, name) == print(t, name)

\* Terminal.standardInputPrompt up to the point where prompt() waits: the
\* prompt of the next line is open (line is the line this happens for)
standardInputPrompt(t, line) ==
    [t EXCEPT !.currInputElement = "top",
              !.effects[line].prompt = @ + 1]

\* Terminal.finishCommand()
finishCommand(t, line) ==
    LET t1 == IF t.outputChannel = "cache_and_user"
              THEN [t EXCEPT !.outputChannel = "user"] ELSE t
    IN IF ~t1.expectingFinishCommand \/ t1.currInputElement # "none"
       THEN t1
       ELSE standardInputPrompt(
                [print(t1, "\n") EXCEPT !.expectingFinishCommand = FALSE,
                           !.interruptCallbackQueue = << >>,
                           !.interruptSignal = FALSE,
                           !.effects[line].save = @ + 1,
                           !.effects[line].updatePath = @ + 1],
                line)

\* Terminal._interruptSTRGC (the main terminal is not in test mode)
_interruptSTRGC(t, line) ==
    finishCommand(
        [printError(t, "Interrupt") EXCEPT
            !.expectingFinishCommand = TRUE,
            !.callbacksRun = @ \o t.interruptCallbackQueue,
            !.interruptCallbackQueue = << >>],
        line)

\* ------------------------------------------------------------------------
\* Command.processArgs and Command.run
\* ------------------------------------------------------------------------

\* the catch block of Command.run without the completion for an
\* IntendedError
RunCatchSilent(t, line, errorName, callFinishFunc) ==
    IF errorName = "IntendedError" THEN t
    ELSE IF callFinishFunc THEN finishCommand(printError(t, errorName), line)
    ELSE printError(t, errorName)

\* the catch block of Command.run
RunCatch(t, line, errorName, callFinishFunc) ==
    LET t1 == IF errorName # "IntendedError" THEN printError(t, errorName) ELSE t
    IN IF callFinishFunc THEN finishCommand(t1, line) ELSE t1

\* the end of the try block with the completion whatever callFinishFunc is
RunFinishAlways(t, line, callFinishFunc) == finishCommand(t, line)

\* the end of the try block of Command.run, after the handler returned
RunFinish(t, line, callFinishFunc) ==
    IF callFinishFunc THEN finishCommand(t, line) ELSE t

\* the forms of the options, as a set
Forms(argOptions) ==
    UNION {{argOptions[k].forms[f] : f \in 1..Len(argOptions[k].forms)} :
               k \in 1..Len(argOptions)}

\* the last option that has the form
LastWithForm(argOptions, form) ==
    CHOOSE k \in 1..Len(argOptions) :
        /\ \E f \in 1..Len(argOptions[k].forms) : argOptions[k].forms[f] = form
        /\ \A j \in (k + 1)..Len(argOptions) :
               \A f \in 1..Len(argOptions[j].forms) : argOptions[j].forms[f] # form

\* valueObject with the name of each option only (its last form)
valueObjectOfNames(argOptions) ==
    [form \in {argOptions[k].name : k \in 1..Len(argOptions)} |->
        argOptions[LastWithForm(argOptions, form)].value]

\* valueObject of Command.processArgs: valueObject[form] = argOption.value
\* for every form of every option
valueObject(argOptions) ==
    [form \in Forms(argOptions) |-> argOptions[LastWithForm(argOptions, form)].value]

\* Command.processArgs, parsed being what parseArguments returns or throws
\* for the tokens, and the catch block of Command.run when processArgs
\* throws; args are the arguments the handler is called with
processArgs(t1, line, cmd, rawArgs, parsed, callFinishFunc) ==
    IF cmd.info.rawArgMode
    THEN [terminal |-> t1, called |-> TRUE, args |-> <<rawArgs>>]
    ELSE IF parsed.thrown # "none"
    THEN [terminal |-> RunCatch(t1, line, parsed.thrown, callFinishFunc),
          called |-> FALSE,
          args |-> << >>]
    ELSE IF parsed.err.message # NoMessage
    THEN \* _printParserError, then throw new IntendedError()
         [terminal |-> RunCatch(print(print(t1, "usage"), "ParseError"),
                                line, "IntendedError", callFinishFunc),
          called |-> FALSE, args |-> << >>]
    ELSE [terminal |-> t1, called |-> TRUE, args |-> <<valueObject(parsed.opts)>>]

\* Command.run from its start to the call of the handler: the terminal
\* after it, whether the handler was called (otherwise run is over) and the
\* arguments it was called with
RunStart(t, line, cmd, tokens, rawArgs, doProcessArgs, callFinishFunc) ==
    LET t1 == IF callFinishFunc THEN [t EXCEPT !.expectingFinishCommand = TRUE] ELSE t
    IN IF ~doProcessArgs
       THEN [terminal |-> t1, called |-> TRUE, args |-> <<rawArgs, tokens>>]
       ELSE processArgs(t1, line, cmd, rawArgs, parseArguments(tokens, cmd),
                        callFinishFunc)

\* ------------------------------------------------------------------------
\* Lines
\* ------------------------------------------------------------------------

\* cmd 50 | cmd 150 | zz | (empty) | $x | $x=cmd 5 | $x= | dd -nb
Lines ==
    {<<"c", "m", "d", " ", "5", "0">>,
     <<"c", "m", "d", " ", "1", "5", "0">>,
     <<"z", "z">>,
     << >>,
     <<"$", "x">>,
     <<"$", "x", "=", "c", "m", "d", " ", "5">>,
     <<"$", "x", "=">>,
     <<"d", "d", " ", "-", "n", "b">>}

\* add 2 3 | add 2 | ss | ss -d y | helloworld x | (space)helloworld x |
\* 'helloworld' x | $x=helloworld y | $x=cmd 5
DispatchLines ==
    {AddName \o <<" ", "2", " ", "3">>,
     AddName \o <<" ", "2">>,
     StringName,
     StringName \o <<" ", "-", "d", " ", "y">>,
     HelloName \o <<" ", "x">>,
     <<" ">> \o HelloName \o <<" ", "x">>,
     <<"'">> \o HelloName \o <<"'", " ", "x">>,
     <<"$", "x", "=">> \o HelloName \o <<" ", "y">>,
     <<"$", "x", "=", "c", "m", "d", " ", "5">>}

\* $x=helloworld a=b | $x=ss -d a=b | $x=helloworld y | $x =ss -d y
AssignmentLines ==
    {<<"$", "x", "=">> \o HelloName \o <<" ", "a", "=", "b">>,
     <<"$", "x", "=">> \o StringName \o <<" ", "-", "d", " ", "a", "=", "b">>,
     <<"$", "x", "=">> \o HelloName \o <<" ", "y">>,
     <<"$", "x", " ", "=">> \o StringName \o <<" ", "-", "d", " ", "y">>}

\* helloworld | pf | $x=helloworld y | $x=cmd 150 | cmd 50 | cmd 150 |
\* dd -nb | zz
StartupLines ==
    {HelloName,
     PlainName,
     <<"$", "x", "=">> \o HelloName \o <<" ", "y">>,
     <<"$", "x", "=", "c", "m", "d", " ", "1", "5", "0">>,
     <<"c", "m", "d", " ", "5", "0">>,
     <<"c", "m", "d", " ", "1", "5", "0">>,
     <<"d", "d", " ", "-", "n", "b">>,
     <<"z", "z">>}

\* pf | cmd 50
PlainLines == {PlainName, <<"c", "m", "d", " ", "5", "0">>}

\* ------------------------------------------------------------------------
\* Command: construction and checkArgs
\* ------------------------------------------------------------------------

\* "a:q"
UnknownTypeCommand == Cmd(<< <<"a", ":", "q">> >>, << >>)

\* new Command(name, callback, info): the fields are copied from info
Command(name, callback, info) ==
    [name |-> name, args |-> info.args, defaultValues |-> info.defaultValues,
     info |-> info, callback |-> callback]

\* Terminal.addCommand: the cache after it and the exception it ended with
addCommand(cache, name, callback, info) ==
    [commandCache |-> cache \cup {Command(name, callback, info)}, thrown |-> "none"]

\* the end of Command.checkArgs, after parseArguments (parsed is its result)
checkArgsResult(parsed) ==
    IF parsed.thrown # "none" THEN FALSE ELSE parsed.err.message = NoMessage

\* Command.checkArgs(tokens)
checkArgs(cmd, tokens) ==
    IF cmd.info.rawArgMode THEN TRUE ELSE checkArgsResult(parseArguments(tokens, cmd))

\* ------------------------------------------------------------------------
\* Terminal.sanetizeInput and the history of TerminalData
\* ------------------------------------------------------------------------

\* the default of maxHistoryLength
maxHistoryLength == 100

\* the default aliases, in the order of their entries
aliases ==
    << [alias |-> <<"t", "r", "e", "e">>, command |-> <<"l", "s", " ", "-", "r">>],
       [alias |-> <<"g", "i", "t", "h", "u", "b">>,
        command |-> <<"h", "r", "e", "f", " ", "-", "f", " ", "r", "o", "o", "t", "/",
                      "g", "i", "t", "h", "u", "b", ".", "u", "r", "l">>],
       [alias |-> <<"h", "u", "g", "e", "t", "u", "r", "t", "l", "o">>,
        command |-> <<"t", "u", "r", "t", "l", "o", " ", "-", "-", "s", "i", "z", "e",
                      " ", "2">>],
       [alias |-> <<"h", "u", "g", "e", "h", "u", "g", "e", "t", "u", "r", "t", "l", "o">>,
        command |-> <<"t", "u", "r", "t", "l", "o", " ", "-", "-", "s", "i", "z", "e",
                      " ", "3">>] >>

\* the replacement of one match of /![0-9]+/: the entry of that number when
\* it is there (and not empty), else the match
Referenced(match, history) ==
    LET index == DecimalValue(Slice(match, 1)) - 1
    IN IF index >= 0 /\ index < Len(history) /\ At(history, index) # << >>
       THEN At(history, index) ELSE match

\* text.replaceAll(/![0-9]+/g, ...) from position p (0-based)
RECURSIVE replaceReferences(_, _, _)
replaceReferences(text, p, history) ==
    IF p >= Len(text) THEN << >>
    ELSE IF At(text, p) = "!" /\ DigitPrefix(Slice(text, p + 1)) # << >>
    THEN Referenced(<<"!">> \o DigitPrefix(Slice(text, p + 1)), history)
             \o replaceReferences(text, p + 1 + Len(DigitPrefix(Slice(text, p + 1))),
                                  history)
    ELSE <<At(text, p)>> \o replaceReferences(text, p + 1, history)

\* history[history.length - 1] ?? ""
lastItemOrEmpty(history) == IF history = << >> THEN << >> ELSE history[Len(history)]

\* text.replaceAll(/!!/g, ...) from position p (0-based)
RECURSIVE replaceLast(_, _, _)
replaceLast(text, p, history) ==
    IF p >= Len(text) THEN << >>
    ELSE IF p + 1 < Len(text) /\ At(text, p) = "!" /\ At(text, p + 1) = "!"
    THEN lastItemOrEmpty(history) \o replaceLast(text, p + 2, history)
    ELSE <<At(text, p)>> \o replaceLast(text, p + 1, history)

\* the loop over the aliases from entry a: text.replaceAll(RegExp(`^${alias}`, "g"), command)
RECURSIVE replaceAliases(_, _)
replaceAliases(text, a) ==
    IF a > Len(aliases) THEN text
    ELSE replaceAliases(IF StartsWith(text, aliases[a].alias)
                        THEN aliases[a].command \o Slice(text, Len(aliases[a].alias))
                        ELSE text,
                        a + 1)

sanetizeInput(text, history) ==
    replaceAliases(replaceLast(replaceReferences(text, 0, history), 0, history), 1)

\* addToHistory without history.shift()
addToHistoryUnbounded(history, command, maxLength) ==
    IF history # << >> /\ history[Len(history)] = command THEN history
    ELSE Append(history, command)

\* TerminalData.addToHistory when the setting maxHistoryLength is maxLength
addToHistoryWith(history, command, maxLength) ==
    IF history # << >> /\ history[Len(history)] = command THEN history
    ELSE IF Len(history) + 1 > maxLength THEN Tail(Append(history, command))
    ELSE Append(history, command)

\* TerminalData.addToHistory with the default setting
addToHistory(history, text) == addToHistoryWith(history, text, maxHistoryLength)

\* the Enter listener of a prompt on the typed text: the text the prompt
\* resolves with and the history after it
EnterListener(text, history, inputCleaning) ==
    LET cleaned == IF inputCleaning THEN sanetizeInput(text, history) ELSE text
    IN [text |-> cleaned,
        history |-> IF cleaned # lastItemOrEmpty(history) /\ Len(cleaned) > 0
                    THEN addToHistory(history, cleaned) ELSE history]

\* ------------------------------------------------------------------------
\* The correctness indicator and the annotation of the typed line
\* ------------------------------------------------------------------------
\* The operators below take and return a record w of what the listener of a
\* keystroke can reach: the fields debugMode, testProcessID, fileSystem,
\* history, variableCache and parentNode of the terminal, CORRECTNESS_CACHE,
\* the colour of the indicator (inputCorrectness), the text of the
\* annotation (currCorrectnessOutput), the number of handlers called
\* (calls), the number of calls of Command.checkArgs (resolverRuns), and
\* the name of the exception that left the listener (raised).

\* the field initializer of Terminal.debugMode; nothing assigns the field
debugModeOn == TRUE

debugMode == FALSE

\* names that every object inherits: `text in CORRECTNESS_CACHE` holds for
\* them whatever the cache holds (toString, valueOf, constructor)
ObjectPrototypeNames ==
    {<<"t", "o", "S", "t", "r", "i", "n", "g">>,
     <<"v", "a", "l", "u", "e", "O", "f">>,
     <<"c", "o", "n", "s", "t", "r", "u", "c", "t", "o", "r">>}

\* text in CORRECTNESS_CACHE
InCache(cache, text) == text \in DOMAIN cache \/ text \in ObjectPrototypeNames

\* CORRECTNESS_CACHE[text] as a condition: an inherited function is truthy
Cached(cache, text) == IF text \in DOMAIN cache THEN cache[text] ELSE TRUE

\* text.trim().length == 0
IsBlank(text) == \A p \in 1..Len(text) : text[p] \in spaceCharacters

\* Terminal.setInputCorrectness (the indicator is there while a prompt of
\* standardInputPrompt is open)
setInputCorrectness(w, correct) == [w EXCEPT !.inputCorrectness = Bool(correct)]

\* TerminalParser.replaceVariables: the value of a variable is the text
\* printed into it
replaceVariables(tokens, variables) ==
    [i \in 1..Len(tokens) |->
        IF isVariable(tokens[i]) /\ extractVariableName(tokens[i]) \in DOMAIN variables
              /\ variables[extractVariableName(tokens[i])] # Undefined
        THEN variables[extractVariableName(tokens[i])].out
        ELSE tokens[i]]

\* TerminalParser.extractCommandAndArgs(tokens)[0]
commandTextOf(tokens) == IF tokens = << >> THEN Undefined ELSE Str(tokens[1])

\* new Command(commandText, () => undefined, commandData)
tempCommand(commandText) == [getCommand(commandText) EXCEPT !.callback = "Function"]

\* the text of a line after extractAssignment
assignedText(text) ==
    IF commandIsAssignment(text) THEN extractAssignment(text).value ELSE text

\* what Terminal.input(text, true) of the virtual terminal does with the
\* tokens of the text: whether a handler is called (that of the command, or
\* that of cmdnotfound) and what it returns; the handlers finish without a
\* prompt
virtualInput(text, tokens) ==
    IF isVariable(text) \/ tokens = << >>
    THEN [called |-> FALSE, wentWell |-> FALSE]
    ELSE IF ~commandExists(Str(tokens[1]))
    THEN [called |-> TRUE, wentWell |-> FALSE]
    ELSE IF checkArgs(getCommand(tokens[1]), tokens)
    THEN [called |-> TRUE, wentWell |-> TRUE]
    ELSE [called |-> FALSE, wentWell |-> FALSE]

\* the end of Terminal.updateInputCorrectnessDebug, after the virtual
\* terminal has run the text (ran is what virtualInput gives)
debugResult(w, text, ran) ==
    [w EXCEPT !.testProcessID = @ + 1,
              !.calls = @ + (IF ran.called THEN 1 ELSE 0),
              !.inputCorrectness = Bool(ran.wentWell),
              !.CORRECTNESS_CACHE = (text :> ran.wentWell) @@ @]

\* Terminal.updateInputCorrectnessDebug: the virtual terminal takes the
\* commands and a copy of the files of the terminal, and is dropped
updateInputCorrectnessDebug(w, text) ==
    debugResult(w, text, virtualInput(text, tokenize(assignedText(text))))

\* the end of Terminal.updateInputCorrectness, from extractCommandAndArgs on
resolveCorrectness(w, tokens) ==
    IF ~commandExists(commandTextOf(tokens))
    THEN setInputCorrectness(w, FALSE)
    ELSE [setInputCorrectness(w, checkArgs(tempCommand(tokens[1]), tokens))
             EXCEPT !.resolverRuns = @ + 1]

\* Terminal.updateInputCorrectness
updateInputCorrectness(w, text) ==
    IF IsBlank(text) THEN setInputCorrectness(w, TRUE)
    ELSE IF w.debugMode THEN updateInputCorrectnessDebug(w, text)
    ELSE IF InCache(w.CORRECTNESS_CACHE, text)
    THEN setInputCorrectness(w, Cached(w.CORRECTNESS_CACHE, text))
    ELSE IF isVariable(text)
    THEN setInputCorrectness(w, /\ extractVariableName(text) \in DOMAIN w.variableCache
                                /\ w.variableCache[extractVariableName(text)] # Undefined)
    ELSE resolveCorrectness(w, replaceVariables(tokenize(assignedText(text)),
                                                w.variableCache))

\* the end of Terminal.getCorrectnessText, after parseArguments (parsed is
\* its result)
correctnessTextOf(tokens, parsed) ==
    IF parsed.thrown # "none" THEN [text |-> "", thrown |-> parsed.thrown]
    ELSE IF parsed.err.message # NoMessage /\ Len(tokens) > 1
              /\ ~getCommand(tokens[1]).info.rawArgMode
    THEN [text |-> parsed.err.message.kind, thrown |-> "none"]
    ELSE [text |-> "info", thrown |-> "none"]

\* Terminal.getCorrectnessText on the tokens of the prompt: the kind of text
\* it returns ("info" for the texts about the command and its options,
\* which depend on the cursor) or the exception it throws
getCorrectnessText(prompt, tokens) ==
    IF Len(prompt) = 0 \/ tokens = << >> THEN [text |-> "", thrown |-> "none"]
    ELSE IF ~commandExists(Str(tokens[1]))
    THEN [text |-> "command not found", thrown |-> "none"]
    ELSE correctnessTextOf(tokens, parseArguments(tokens, tempCommand(tokens[1])))

\* the end of Terminal.updateCorrectnessText (found is what
\* getCorrectnessText gives)
setCorrectnessText(w, found) ==
    IF found.thrown # "none" THEN [w EXCEPT !.raised = found.thrown]
    ELSE [w EXCEPT !.currCorrectnessOutput = found.text]

\* Terminal.updateCorrectnessText
updateCorrectnessText(w, prompt) ==
    setCorrectnessText(w, getCorrectnessText(prompt, tokenize(prompt)))

\* inputElement.oninput and inputElement.onselectionchange of the prompt of
\* standardInputPrompt, on the text in the input element
oninput(w, typed) ==
    updateCorrectnessText(updateInputCorrectness(w, sanetizeInput(typed, w.history)),
                          typed)

\* ------------------------------------------------------------------------
\* State
\* ------------------------------------------------------------------------

VARIABLES
    command,        \* the command whose arguments are resolved
    tempTokens,     \* the tokens given to parseArguments
    again,          \* what a second call of parseArguments returned
    inputText,      \* the text given to tokenize
    tokenized,      \* what tokenize returned, NotCalled before the call
    expression,     \* the text given to _parseNumber
    evaluated,      \* what _parseNumber returned, NotCalled before the call
    registration,   \* what addCommand returned, NotCalled before the call
    checked,        \* what checkArgs returned, NotCalled before the call
    history,        \* terminal.data.history
    entered,        \* the last line entered at the prompt: the text typed, the
                    \* history before it and the text the prompt resolved with
    recorded,       \* the setting maxHistoryLength and the commands given to
                    \* addToHistory from the empty history on
    analysis,       \* the indicator and the annotation of the typed line, with
                    \* what the last keystroke found and did
    storage,        \* the file tree and the locals of dumpTooLargeFiles
    terminal,       \* the fields of the Terminal object
    lines,          \* the lines given to Terminal.input, with how each ended
    handler         \* the command handler that is running, if any

resolverVars == <<command, tempTokens, resolution, again>>

tokenizerVars == <<inputText, tokenized>>

evaluatorVars == <<expression, evaluated>>

registryVars == <<registration, checked>>

historyVars == <<history, entered, recorded>>

functionVars ==
    <<resolverVars, tokenizerVars, evaluatorVars, registryVars, historyVars, analysis,
      storage>>

terminalVars == <<terminal, lines, handler>>

vars == <<command, tempTokens, resolution, again, inputText, tokenized,
          expression, evaluated, registration, checked, history, entered, recorded,
          analysis, storage,
          terminal, lines, handler>>

\* the variables of the resolver, the tokenizer and the evaluator when they
\* are not the ones called
TokenizerIdle == inputText = << >> /\ tokenized = NotCalled

EvaluatorIdle == expression = << >> /\ evaluated = NotCalled

RegistryIdle == registration = NotCalled /\ checked = NotCalled

HistoryIdle == history = << >> /\ entered = NotCalled /\ recorded = NotCalled

\* the files of the terminal, as FileSystem.toJSON gives them
Files == {<<"g", "i", "t", "h", "u", "b", ".", "u", "r", "l">>}

\* no key has been pressed in the prompt: the cache is empty
NoKeystroke ==
    [debugMode |-> debugMode, CORRECTNESS_CACHE |-> << >>, testProcessID |-> 0,
     inputCorrectness |-> Undefined, currCorrectnessOutput |-> "", raised |-> "none",
     calls |-> 0, resolverRuns |-> 0, fileSystem |-> Files,
     keystrokes |-> 0, typed |-> << >>, text |-> << >>, resolvedLines |-> {},
     repeated |-> FALSE, ran |-> FALSE, before |-> NotCalled, after |-> NotCalled]

AnalysisIdle == analysis = NoKeystroke

StorageIdle == storage = NotCalled

VarNames == {<<"x">>}

\* no handler is running; steps counts the steps the handlers have taken
Idle(steps) ==
    [pc |-> "idle", steps |-> steps, args |-> << >>, awaited |-> TRUE,
     detached |-> FALSE, raised |-> FALSE, printed |-> 0, callFinishFunc |-> TRUE]

\* a line given to Terminal.input: its text, how it ended, the length of the
\* display when it was entered, the number of calls of a handler for it and
\* the name of the exception its handler threw, and the testMode it was
\* given with
Line(text, status, calls, testMode) ==
    [text |-> text, status |-> status, shown |-> Len(terminal.parentNode),
     calls |-> calls, thrown |-> "none", testMode |-> testMode]

\* the terminal after init(): the first prompt is open
TerminalInit ==
    /\ terminal = [expectingFinishCommand |-> FALSE,
                   currInputElement |-> "top",
                   outputChannel |-> "user",
                   outputCacheVarName |-> Null,
                   variableCache |-> [n \in VarNames |-> Undefined],
                   interruptCallbackQueue |-> << >>,
                   interruptSignal |-> FALSE,
                   parentNode |-> << >>,
                   callbacksRun |-> << >>,
                   effects |-> [l \in 0..MaxLines |-> NoEffects]]
    /\ lines = << >>
    /\ handler = Idle(0)

\* ------------------------------------------------------------------------
\* The resolver called on its own
\* ------------------------------------------------------------------------

ResolverInit ==
    /\ command \in Commands
    /\ tempTokens \in Inputs(command)
    /\ resolution = NotCalled
    /\ again = NotCalled
    /\ TokenizerIdle
    /\ EvaluatorIdle
    /\ RegistryIdle
    /\ HistoryIdle
    /\ AnalysisIdle
    /\ StorageIdle
    /\ TerminalInit

\* a call of TerminalParser.parseArguments(tempTokens, command)
ParseArguments ==
    /\ resolution = NotCalled
    /\ resolution' = parseArguments(tempTokens, command)
    /\ UNCHANGED <<command, tempTokens, again>>
    /\ UNCHANGED <<tokenizerVars, evaluatorVars, registryVars, historyVars, analysis, storage,
                   terminalVars>>

\* a second call with the same tokens and the same command
ParseArgumentsAgain ==
    /\ resolution # NotCalled
    /\ again = NotCalled
    /\ again' = parseArguments(tempTokens, command)
    /\ UNCHANGED <<command, tempTokens, resolution>>
    /\ UNCHANGED <<tokenizerVars, evaluatorVars, registryVars, historyVars, analysis, storage,
                   terminalVars>>

ResolverNext == ParseArguments \/ ParseArgumentsAgain

ResolverSpec == ResolverInit /\ [][ResolverNext]_vars

Called == resolution # NotCalled

\* ------------------------------------------------------------------------
\* The tokenizer called on its own
\* ------------------------------------------------------------------------

MaxInputLen == 4

\* a letter, the three separators and the two quote characters
InputAlphabet == {"a"} \cup spaceCharacters \cup apostropheCharacters

InputTexts == UNION {[1..n -> InputAlphabet] : n \in 0..MaxInputLen}

TokenizerInit ==
    /\ inputText \in InputTexts
    /\ tokenized = NotCalled
    /\ command = RangeCommand
    /\ tempTokens = <<CmdName>>
    /\ resolution = NotCalled
    /\ again = NotCalled
    /\ EvaluatorIdle
    /\ RegistryIdle
    /\ HistoryIdle
    /\ AnalysisIdle
    /\ StorageIdle
    /\ TerminalInit

\* a call of TerminalParser.tokenize(inputText)
Tokenize ==
    /\ tokenized = NotCalled
    /\ tokenized' = [tokens |-> tokenize(inputText)]
    /\ UNCHANGED inputText
    /\ UNCHANGED <<resolverVars, evaluatorVars, registryVars, historyVars, analysis, storage,
                   terminalVars>>

TokenizerNext == Tokenize

TokenizerSpec == TokenizerInit /\ [][TokenizerNext]_vars

\* ------------------------------------------------------------------------
\* The evaluator called on its own
\* ------------------------------------------------------------------------

MaxExprLen == 5

\* two digits, the five operators and the parentheses
ExprAlphabet == {"0", "2", "+", "-", "*", "/", "^", "(", ")"}

\* the texts whose numerals are one digit long
ExprTexts ==
    {s \in UNION {[1..n -> ExprAlphabet] : n \in 0..MaxExprLen} :
        \A k \in 1..(Len(s) - 1) : ~(s[k] \in Digits /\ s[k + 1] \in Digits)}

ExampleTexts ==
    {<<"2", "+", "3", "+", "4">>, <<"8", "/", "4", "/", "2">>,
     <<"2", "^", "3", "^", "2">>, <<"0", "^", "(", "-", "2", ")">>,
     <<"0", "/", "(", "2", "-", "2", ")">>,
     <<"s", "i", "n", "(", "1", ")", "+", "c", "o", "s", "(", "2", ")">>,
     <<"(", "1", "+", "2", ")", "*", "(", "3", "+", "4", ")">>,
     <<"-", "2", "+", "3">>,
     <<"-", "3", "-", "2">>,
     <<"-", "3", "/", "0">>,
     <<"0", "-", "2", "+", "3">>}

\* arguments with the values 0, 1, -1, 2, -2, 4, 1/2 and -1/2, and one
\* that fails
ArgumentTexts ==
    {<<"0">>, <<"2", "/", "2">>, <<"-", "2", "/", "2">>, <<"2">>, <<"-", "2">>,
     <<"2", "+", "2">>, <<"2", "/", "(", "2", "+", "2", ")">>,
     <<"-", "2", "/", "(", "2", "+", "2", ")">>, <<"2", "+">>}

\* the calls f(a) of the named functions
CallTexts ==
    {allowedFunctions[j] \o <<"(">> \o a \o <<")">> :
        j \in 1..(Len(allowedFunctions) - 1), a \in ArgumentTexts}

\* f(a) op g(b) for the functions sqrt, cos and the plain parentheses
PairTexts ==
    {allowedFunctions[j] \o <<"(">> \o a \o <<")">> \o <<operators[o]>>
         \o allowedFunctions[k] \o <<"(">> \o b \o <<")">> :
        j \in {1, 3, 14}, k \in {1, 3, 14}, o \in 1..Len(operators),
        a \in {<<"0">>, <<"2">>, <<"2", "+", "2">>},
        b \in {<<"0">>, <<"2">>, <<"2", "+", "2">>}}

EvaluatorInit ==
    /\ expression \in ExprTexts \cup ExampleTexts \cup CallTexts \cup PairTexts
    /\ evaluated = NotCalled
    /\ command = RangeCommand
    /\ tempTokens = <<CmdName>>
    /\ resolution = NotCalled
    /\ again = NotCalled
    /\ TokenizerIdle
    /\ RegistryIdle
    /\ HistoryIdle
    /\ AnalysisIdle
    /\ StorageIdle
    /\ TerminalInit

\* a call of TerminalParser._parseNumber(expression, argOption, error)
Evaluate ==
    /\ evaluated = NotCalled
    /\ evaluated' = _parseNumber(Str(expression))
    /\ UNCHANGED expression
    /\ UNCHANGED <<resolverVars, tokenizerVars, registryVars, historyVars, analysis, storage,
                   terminalVars>>

EvaluatorNext == Evaluate

EvaluatorSpec == EvaluatorInit /\ [][EvaluatorNext]_vars

\* ------------------------------------------------------------------------
\* The registration of a command, and the calls made on it afterwards
\* ------------------------------------------------------------------------

RegistryInit ==
    /\ command \in Commands \cup {UnknownTypeCommand}
    /\ tempTokens \in Inputs(command)
    /\ resolution = NotCalled
    /\ again = NotCalled
    /\ RegistryIdle
    /\ TokenizerIdle
    /\ EvaluatorIdle
    /\ HistoryIdle
    /\ AnalysisIdle
    /\ StorageIdle
    /\ TerminalInit

\* terminal.addCommand(command.name, callback, {args, defaultValues})
Register ==
    /\ registration = NotCalled
    /\ registration' = addCommand({}, command.name, "AsyncFunction",
                                  [args |-> command.args,
                                   defaultValues |-> command.defaultValues,
                                   rawArgMode |-> FALSE])
    /\ UNCHANGED checked
    /\ UNCHANGED <<resolverVars, tokenizerVars, evaluatorVars, historyVars, analysis, storage,
                   terminalVars>>

theCommand == CHOOSE c \in registration.commandCache : TRUE

\* checkArgs(tempTokens) on the registered command
CheckArgs ==
    /\ registration # NotCalled
    /\ registration.thrown = "none"
    /\ checked = NotCalled
    /\ checked' = [result |-> checkArgs(theCommand, tempTokens)]
    /\ UNCHANGED registration
    /\ UNCHANGED <<resolverVars, tokenizerVars, evaluatorVars, historyVars, analysis, storage,
                   terminalVars>>

\* parseArguments(tempTokens, command) on the registered command
ParseRegistered ==
    /\ registration # NotCalled
    /\ registration.thrown = "none"
    /\ ParseArguments

RegistryNext == Register \/ CheckArgs \/ ParseRegistered

RegistrySpec == RegistryInit /\ [][RegistryNext]_vars

\* ------------------------------------------------------------------------
\* The lines entered at the prompt of the idle terminal
\* ------------------------------------------------------------------------

MaxHistory == 4

MaxTypedLen == 3

\* the texts over "!" and a digit, and two that begin with an alias
TypedTexts ==
    UNION {[1..n -> {"!", "2"}] : n \in 0..MaxTypedLen}
        \cup {<<"t", "r", "e", "e">>, <<"t", "r", "e", "e", " ", "!", "!">>}

HistoryInit ==
    /\ HistoryIdle
    /\ AnalysisIdle
    /\ StorageIdle
    /\ command = RangeCommand
    /\ tempTokens = <<CmdName>>
    /\ resolution = NotCalled
    /\ again = NotCalled
    /\ TokenizerIdle
    /\ EvaluatorIdle
    /\ RegistryIdle
    /\ TerminalInit

\* the Enter key in the prompt of standardInputPrompt (no command is
\* executing, so inputCleaning is true); the text it resolves with is the
\* one given to Terminal.input
Enter(text) ==
    /\ Len(history) < MaxHistory
    /\ entered' = [typed |-> text, before |-> history,
                   text |-> EnterListener(text, history, TRUE).text]
    /\ history' = EnterListener(text, history, TRUE).history
    /\ UNCHANGED <<resolverVars, tokenizerVars, evaluatorVars, registryVars, analysis,
                   recorded, storage, terminalVars>>

HistoryNext == \E text \in TypedTexts : Enter(text)

HistorySpec == HistoryInit /\ [][HistoryNext]_vars

\* ------------------------------------------------------------------------
\* TerminalData.addToHistory called on its own
\* ------------------------------------------------------------------------

\* the largest number of calls of addToHistory
MaxRecorded == 5

\* the largest setting of maxHistoryLength
MaxSetting == 2

\* a | b | (space)a
RecordedCommands == {<<"a">>, <<"b">>, <<" ", "a">>}

RecordInit ==
    /\ history = << >>
    /\ entered = NotCalled
    /\ \E maxLength \in 0..MaxSetting :
           recorded = [maxHistoryLength |-> maxLength, commands |-> << >>]
    /\ AnalysisIdle
    /\ StorageIdle
    /\ command = RangeCommand
    /\ tempTokens = <<CmdName>>
    /\ resolution = NotCalled
    /\ again = NotCalled
    /\ TokenizerIdle
    /\ EvaluatorIdle
    /\ RegistryIdle
    /\ TerminalInit

\* terminal.data.addToHistory(command)
AddToHistory(cmd) ==
    /\ Len(recorded.commands) < MaxRecorded
    /\ history' = addToHistoryWith(history, cmd, recorded.maxHistoryLength)
    /\ recorded' = [recorded EXCEPT !.commands = Append(@, cmd)]
    /\ UNCHANGED <<resolverVars, tokenizerVars, evaluatorVars, registryVars, analysis,
                   entered, storage, terminalVars>>

RecordNext == \E cmd \in RecordedCommands : AddToHistory(cmd)

RecordSpec == RecordInit /\ [][RecordNext]_vars

\* ------------------------------------------------------------------------
\* FileSystem.dumpTooLargeFiles
\* ------------------------------------------------------------------------
\* A file tree is a function from the ids of its files to records: name (its
\* length), isDirectory, content (children: the ids of the children of a
\* directory; text: the length of the text of another file) and parent (an
\* id, or 0 when the link is null). The file with id 1 is the root directory.

\* the sum of the numbers of a sequence
RECURSIVE Sum(_)
Sum(seq) == IF seq = << >> THEN 0 ELSE Head(seq) + Sum(Tail(seq))

\* TerminalFile.computeSize: the length of JSON.stringify(toObject()), which
\* is {"name":"..","type":"plaintext","content":".."} for a text file and
\* {"type":"directory","name":"..","content":[..,..]} for a directory
RECURSIVE computeSize(_, _)
computeSize(files, id) ==
    IF files[id].isDirectory
    THEN 43 + files[id].name
            + Sum([k \in 1..Len(files[id].content.children) |->
                       computeSize(files, files[id].content.children[k])])
            + (IF Len(files[id].content.children) > 1
               THEN Len(files[id].content.children) - 1 ELSE 0)
    ELSE 43 + files[id].name + files[id].content.text

\* getAllFiles(file): the file, then the files of each child in turn
RECURSIVE getAllFiles(_, _)
RECURSIVE getAllOf(_, _)
getAllOf(files, ids) ==
    IF ids = << >> THEN << >>
    ELSE getAllFiles(files, Head(ids)) \o getAllOf(files, Tail(ids))

getAllFiles(files, id) ==
    IF files[id].isDirectory THEN <<id>> \o getAllOf(files, files[id].content.children)
    ELSE <<id>>

\* the loop of dumpLargestFile over allFiles from position k on
RECURSIVE largestFrom(_, _, _, _, _)
largestFrom(files, allFiles, k, largestFile, largestSize) ==
    IF k > Len(allFiles) THEN largestFile
    ELSE IF files[allFiles[k]].isDirectory
    THEN largestFrom(files, allFiles, k + 1, largestFile, largestSize)
    ELSE IF computeSize(files, allFiles[k]) > largestSize
    THEN largestFrom(files, allFiles, k + 1, allFiles[k],
                     computeSize(files, allFiles[k]))
    ELSE largestFrom(files, allFiles, k + 1, largestFile, largestSize)

\* DirectoryFile.deleteChild
deleteChild(files, dir, child) ==
    [files EXCEPT ![dir].content.children = SelectSeq(@, LAMBDA f : f # child)]

\* dumpLargestFile(): the locals after it, with what it returned
dumpLargestFile(d) ==
    LET largestFile == largestFrom(d.files, d.allFiles, 1, 0, 0)
    IN IF largestFile # 0 /\ d.files[largestFile].parent # 0
       THEN [d EXCEPT !.files = deleteChild(@, d.files[largestFile].parent, largestFile),
                      !.introducedDumping = TRUE,
                      !.dumped = Append(@, largestFile),
                      !.allFiles = SelectSeq(@, LAMBDA f : f # largestFile),
                      !.result = "undefined"]
       ELSE IF largestFile # 0
       THEN [d EXCEPT !.result = "not ready yet"]
       ELSE [d EXCEPT !.result = "undefined"]

\* the largest number of files of a tree
MaxFiles == 3

\* the lengths of the texts of the files
ContentLengths == {0, 60}

\* the limits
FileSizeLimits == {0, 48, 100, 150, 200}

\* the trees with n files: each file after the root is a directory or a text
\* file, the child of a directory before it; the parent link of a text file
\* is set (addChild, fromObject) or not (a content given to the constructor)
TreesOf(n) ==
    {files \in [1..n -> [name : {1, 4}, isDirectory : BOOLEAN,
                         content : [text : ContentLengths] \cup {[children |-> << >>]},
                         parent : 0..n]] :
        /\ files[1] = [name |-> 4, isDirectory |-> TRUE,
                       content |-> [children |-> << >>], parent |-> 0]
        /\ \A i \in 2..n :
              /\ files[i].name = 1
              /\ files[i].isDirectory <=> files[i].content = [children |-> << >>]
              /\ files[i].parent \in 1..(i - 1)
              /\ files[files[i].parent].isDirectory}

\* the children of each directory filled in, in the order of the ids, and
\* the parent links of the files of the set unlinked taken out
Linked(files, unlinked) ==
    [i \in DOMAIN files |->
        [files[i] EXCEPT
            !.content = IF files[i].isDirectory
                        THEN [children |->
                                 SelectSeq([k \in 1..Len(files) |-> k],
                                           LAMBDA k : k > 1 /\ files[k].parent = i)]
                        ELSE @,
            !.parent = IF i \in unlinked THEN 0 ELSE @]]

TextFiles(files) == {i \in DOMAIN files : ~files[i].isDirectory}

Trees ==
    UNION {{Linked(files, unlinked) : unlinked \in SUBSET TextFiles(files)} :
               files \in UNION {TreesOf(n) : n \in 1..MaxFiles}}

DumpInit ==
    /\ \E files \in Trees, fileSizeLimit \in FileSizeLimits :
           storage = [pc |-> "called", files |-> files, fileSizeLimit |-> fileSizeLimit,
                      allFiles |-> << >>, totalSize |-> 0, introducedDumping |-> FALSE,
                      dumped |-> << >>, result |-> "undefined", given |-> files]
    /\ HistoryIdle
    /\ AnalysisIdle
    /\ command = RangeCommand
    /\ tempTokens = <<CmdName>>
    /\ resolution = NotCalled
    /\ again = NotCalled
    /\ TokenizerIdle
    /\ EvaluatorIdle
    /\ RegistryIdle
    /\ TerminalInit

DumpUnchanged ==
    UNCHANGED <<resolverVars, tokenizerVars, evaluatorVars, registryVars, historyVars,
                analysis, terminalVars>>

\* dumpTooLargeFiles(this.root, fileSizeLimit) up to its loop
DumpStart ==
    /\ storage # NotCalled
    /\ storage.pc = "called"
    /\ storage' = IF computeSize(storage.files, 1) < storage.fileSizeLimit
                  THEN [storage EXCEPT !.pc = "returned"]
                  ELSE [storage EXCEPT !.pc = "loop",
                                       !.allFiles = getAllFiles(storage.files, 1),
                                       !.totalSize = computeSize(storage.files, 1)]
    /\ DumpUnchanged

\* the test of the while loop and one run of its body
DumpLoop ==
    /\ storage # NotCalled
    /\ storage.pc = "loop"
    /\ storage' = IF storage.totalSize > storage.fileSizeLimit
                  THEN LET d == dumpLargestFile(storage)
                       IN IF d.result = "not ready yet"
                          THEN [d EXCEPT !.pc = "returned"]
                          ELSE [d EXCEPT !.totalSize = computeSize(d.files, 1)]
                  ELSE [storage EXCEPT !.pc = "returned"]
    /\ DumpUnchanged

DumpNext == DumpStart \/ DumpLoop

DumpSpec == DumpInit /\ [][DumpNext]_vars

\* the loop goes on as long as it can
DumpFairSpec == DumpSpec /\ WF_vars(DumpNext)

\* ------------------------------------------------------------------------
\* The keystrokes in the prompt of the idle terminal
\* ------------------------------------------------------------------------

MaxKeystrokes == 3

\* (space) | cmd 50 | cmd | cm | $x | $x=cmd 5 | cmd $x | dd -nb |
\* helloworld x | toString | !!
AnalysisTexts ==
    {<<" ">>,
     <<"c", "m", "d", " ", "5", "0">>,
     <<"c", "m", "d">>,
     <<"c", "m">>,
     <<"$", "x">>,
     <<"$", "x", "=", "c", "m", "d", " ", "5">>,
     <<"c", "m", "d", " ", "$", "x">>,
     <<"d", "d", " ", "-", "n", "b">>,
     HelloName \o <<" ", "x">>,
     <<"t", "o", "S", "t", "r", "i", "n", "g">>,
     <<"!", "!">>}

\* the first prompt is open; the variable x is not set, or holds what an
\* assignment of an earlier session of the terminal printed into it
AnalysisInit ==
    /\ HistoryIdle
    /\ AnalysisIdle
    /\ StorageIdle
    /\ command = RangeCommand
    /\ tempTokens = <<CmdName>>
    /\ resolution = NotCalled
    /\ again = NotCalled
    /\ TokenizerIdle
    /\ EvaluatorIdle
    /\ RegistryIdle
    /\ lines = << >>
    /\ handler = Idle(0)
    /\ \E value \in {Undefined, [out |-> <<"out">>]} :
           terminal = [expectingFinishCommand |-> FALSE,
                       currInputElement |-> "top",
                       outputChannel |-> "user",
                       outputCacheVarName |-> Null,
                       variableCache |-> [n \in VarNames |-> value],
                       interruptCallbackQueue |-> << >>,
                       interruptSignal |-> FALSE,
                       parentNode |-> << >>,
                       callbacksRun |-> << >>,
                       effects |-> [l \in 0..MaxLines |-> NoEffects]]

\* what a listener of the prompt can reach, before it runs
World ==
    [debugMode |-> analysis.debugMode,
     CORRECTNESS_CACHE |-> analysis.CORRECTNESS_CACHE,
     testProcessID |-> analysis.testProcessID,
     inputCorrectness |-> analysis.inputCorrectness,
     currCorrectnessOutput |-> analysis.currCorrectnessOutput,
     raised |-> "none",
     calls |-> analysis.calls,
     resolverRuns |-> analysis.resolverRuns,
     fileSystem |-> analysis.fileSystem,
     history |-> history,
     variableCache |-> terminal.variableCache,
     parentNode |-> terminal.parentNode]

\* the history, the variables, the files and the display of the terminal
Shared(w) ==
    [history |-> w.history, variableCache |-> w.variableCache,
     fileSystem |-> w.fileSystem, parentNode |-> w.parentNode]

\* a keystroke or a change of the selection that leaves the text typed in
\* the input element: oninput or onselectionchange runs. text is the typed
\* text after sanetizeInput and r is what the listener leaves.
KeystrokeLeaves(typed, text, r) ==
    /\ analysis' = [debugMode |-> r.debugMode,
                    CORRECTNESS_CACHE |-> r.CORRECTNESS_CACHE,
                    testProcessID |-> r.testProcessID,
                    inputCorrectness |-> r.inputCorrectness,
                    currCorrectnessOutput |-> r.currCorrectnessOutput,
                    raised |-> r.raised,
                    calls |-> r.calls,
                    resolverRuns |-> r.resolverRuns,
                    fileSystem |-> r.fileSystem,
                    keystrokes |-> analysis.keystrokes + 1,
                    typed |-> typed,
                    text |-> text,
                    resolvedLines |->
                        analysis.resolvedLines
                            \cup (IF r.resolverRuns > analysis.resolverRuns
                                  THEN {text} ELSE {}),
                    repeated |-> text \in analysis.resolvedLines,
                    ran |-> r.resolverRuns > analysis.resolverRuns,
                    before |-> Shared(World),
                    after |-> Shared(r)]
    /\ history' = r.history
    /\ terminal' = [terminal EXCEPT !.variableCache = r.variableCache,
                                    !.parentNode = r.parentNode]

Keystroke(typed) ==
    /\ analysis.keystrokes < MaxKeystrokes
    /\ terminal.currInputElement = "top"
    /\ KeystrokeLeaves(typed, sanetizeInput(typed, history), oninput(World, typed))
    /\ UNCHANGED <<resolverVars, tokenizerVars, evaluatorVars, registryVars, entered,
                   recorded, storage, lines, handler>>

\* the Enter key on the text in the input element
EnterTyped == analysis.keystrokes > 0 /\ Enter(analysis.typed)

AnalysisNext ==
    \/ \E typed \in AnalysisTexts : Keystroke(typed)
    \/ EnterTyped

AnalysisSpec == AnalysisInit /\ [][AnalysisNext]_vars

\* ------------------------------------------------------------------------
\* The terminal
\* ------------------------------------------------------------------------

CurrentLine == Len(lines)

EndLine(status) == lines' = [lines EXCEPT ![CurrentLine].status = status]

\* the line after Command.run reached the handler or ended before it (run
\* is what RunStart returned)
Dispatch(run, text, cmd, callFinishFunc) ==
    /\ terminal' = run.terminal
    /\ lines' = Append(lines, IF run.called THEN Line(text, "running", 1, ~callFinishFunc)
                              ELSE Line(text, "rejected", 0, ~callFinishFunc))
    /\ handler' = IF run.called
                  THEN [Idle(handler.steps) EXCEPT
                           !.pc = "running",
                           !.args = run.args,
                           !.awaited = (cmd.callback = "AsyncFunction"),
                           !.callFinishFunc = callFinishFunc]
                  ELSE Idle(handler.steps)

\* Terminal.input(text, testMode) up to the call of the handler, t0 being
\* the terminal it is called on.
TerminalInput(t0, text, testMode) ==
    /\ Len(lines) < MaxLines
    /\ LET line == Len(lines) + 1
           \* clear interrupt signal
           t1 == [t0 EXCEPT !.interruptCallbackQueue = << >>, !.interruptSignal = FALSE]
           isAssignment == commandIsAssignment(text)
           assignmentInfo == extractAssignment(text)
           t2 == IF isAssignment
                 THEN [t1 EXCEPT !.variableCache[assignmentInfo.name] = [out |-> << >>],
                                 !.outputCacheVarName = assignmentInfo.name,
                                 !.outputChannel = "cache_and_user"]
                 ELSE [t1 EXCEPT !.outputChannel = "user"]
           rest == IF isAssignment THEN assignmentInfo.value ELSE text
           tokens == tokenize(rest)
           commandText == tokens[1]
           rawArgs == Slice(rest, Len(commandText))
       IN IF isVariable(text)
          THEN /\ terminal' = standardInputPrompt(
                                  print(t1, IF t1.variableCache[extractVariableName(text)]
                                                  = Undefined
                                            THEN "Error" ELSE "value"),
                                  line)
               /\ lines' = Append(lines, Line(text, "skipped", 0, testMode))
               /\ handler' = Idle(handler.steps)
          ELSE IF tokens = << >>
          THEN /\ terminal' = standardInputPrompt(t2, line)
               /\ lines' = Append(lines, Line(text, "skipped", 0, testMode))
               /\ handler' = Idle(handler.steps)
          ELSE IF commandExists(Str(commandText))
          THEN Dispatch(RunStart(t2, line, getCommand(commandText), tokens, rawArgs,
                                 TRUE, ~testMode),
                        text, getCommand(commandText), ~testMode)
          ELSE Dispatch(RunStart(t2, line, getCommand(NotFoundName),
                                 <<NotFoundName, commandText, rawArgs>>, commandText,
                                 FALSE, ~testMode),
                        text, getCommand(NotFoundName), ~testMode)
    /\ UNCHANGED functionVars

\* The Enter key in the prompt of standardInputPrompt: the listener prints
\* the text and removes the input, and Terminal.input runs on the text.
Input(text) ==
    /\ terminal.currInputElement = "top"
    /\ TerminalInput([print(terminal, "typed") EXCEPT !.currInputElement = "none"],
                     text, FALSE)

\* a startup command of Terminal.init: await this.input(startupCommand, true),
\* one command after the other
StartupCommand(text) ==
    /\ handler.pc = "idle"
    /\ TerminalInput(terminal, text, TRUE)

\* the handler prints
HandlerPrint ==
    /\ handler.pc = "running"
    /\ handler.steps < MaxHandlerSteps
    /\ terminal' = print(terminal, "out")
    /\ handler' = [handler EXCEPT !.steps = @ + 1, !.printed = @ + 1]
    /\ UNCHANGED <<lines, functionVars>>

\* the handler calls Terminal.onInterrupt(callback)
HandlerOnInterrupt ==
    /\ handler.pc = "running"
    /\ handler.steps < MaxHandlerSteps
    /\ terminal' = [terminal EXCEPT !.interruptCallbackQueue = Append(@, CurrentLine)]
    /\ handler' = [handler EXCEPT !.steps = @ + 1]
    /\ UNCHANGED <<lines, functionVars>>

\* the handler awaits Terminal.sleep(ms); intervalFunc runs once at once
\* (keys: Control and c are held down)
HandlerSleep(keys) ==
    /\ handler.pc = "running"
    /\ handler.steps < MaxHandlerSteps
    /\ IF keys \/ terminal.interruptSignal
       THEN /\ terminal' = _interruptSTRGC([terminal EXCEPT !.interruptSignal = FALSE],
                                           CurrentLine)
            /\ handler' = Idle(handler.steps)
            /\ EndLine("interrupted")
       ELSE /\ handler' = [handler EXCEPT !.pc = "sleeping", !.steps = @ + 1]
            /\ UNCHANGED <<terminal, lines>>
    /\ UNCHANGED functionVars

\* intervalFunc of a sleep finds the interrupt: the sleep never resolves
SleepInterrupt(keys) ==
    /\ handler.pc = "sleeping"
    /\ handler.awaited \/ handler.detached
    /\ keys \/ terminal.interruptSignal
    /\ terminal' = _interruptSTRGC([terminal EXCEPT !.interruptSignal = FALSE], CurrentLine)
    /\ handler' = Idle(handler.steps)
    /\ EndLine("interrupted")
    /\ UNCHANGED functionVars

\* the timeout of a sleep resolves it
SleepTimeout ==
    /\ handler.pc = "sleeping"
    /\ handler.awaited \/ handler.detached
    /\ handler' = [handler EXCEPT !.pc = "running"]
    /\ UNCHANGED <<terminal, lines, functionVars>>

\* the handler awaits Terminal.prompt(msg)
HandlerPrompt ==
    /\ handler.pc = "running"
    /\ handler.steps < MaxHandlerSteps
    /\ terminal' = [print(terminal, "msg") EXCEPT !.currInputElement = "handler"]
    /\ handler' = [handler EXCEPT !.pc = "prompting", !.steps = @ + 1]
    /\ UNCHANGED <<lines, functionVars>>

\* the Enter key in a prompt of the handler
PromptEnter ==
    /\ handler.pc = "prompting"
    /\ handler.awaited \/ handler.detached
    /\ terminal.currInputElement = "handler"
    /\ terminal' = [print(terminal, "typed") EXCEPT !.currInputElement = "none"]
    /\ handler' = [handler EXCEPT !.pc = "running"]
    /\ UNCHANGED <<lines, functionVars>>

\* Control-c in the open prompt: of the handler, or of the next line
PromptInterrupt ==
    /\ terminal.currInputElement # "none"
    /\ terminal.currInputElement = "top" => terminal.effects[0].prompt < MaxInterrupts
    /\ terminal.currInputElement = "handler" => handler.awaited \/ handler.detached
    /\ IF terminal.currInputElement = "handler"
       THEN /\ terminal' = _interruptSTRGC([terminal EXCEPT !.currInputElement = "none"],
                                           CurrentLine)
            /\ handler' = Idle(handler.steps)
            /\ EndLine("interrupted")
       ELSE /\ terminal' = _interruptSTRGC([terminal EXCEPT !.currInputElement = "none"], 0)
            /\ UNCHANGED <<handler, lines>>
    /\ UNCHANGED functionVars

\* Terminal.interrupt(); raised records that the signal was set while the
\* handler was waiting for a sleep or a prompt
Interrupt ==
    /\ terminal' = [terminal EXCEPT !.interruptSignal = TRUE]
    /\ handler' = IF handler.pc \in {"sleeping", "prompting"}
                  THEN [handler EXCEPT !.raised = TRUE] ELSE handler
    /\ UNCHANGED <<lines, functionVars>>

\* a handler that is not an async function returns the promise of the sleep
\* or the prompt it started: Command.run does not await it and goes on to
\* the end of its try block; the handler goes on when the promise settles
HandlerDetach ==
    /\ handler.pc \in {"sleeping", "prompting"}
    /\ ~handler.awaited
    /\ ~handler.detached
    /\ terminal' = RunFinish(terminal, CurrentLine, handler.callFinishFunc)
    /\ handler' = [handler EXCEPT !.detached = TRUE]
    /\ EndLine("returned")
    /\ UNCHANGED functionVars

\* the handler returns: the rest of the try block of Command.run; nothing
\* follows the end of a handler that Command.run did not await
HandlerReturn ==
    /\ handler.pc = "running"
    /\ IF handler.detached
       THEN UNCHANGED <<terminal, lines>>
       ELSE /\ terminal' = RunFinish(terminal, CurrentLine, handler.callFinishFunc)
            /\ EndLine("returned")
    /\ handler' = Idle(handler.steps)
    /\ UNCHANGED functionVars

\* the handler throws: the catch block of Command.run; the promise of a
\* handler that Command.run did not await is rejected and nothing catches it
HandlerThrow(errorName) ==
    /\ handler.pc = "running"
    /\ terminal' = IF handler.detached THEN terminal
                   ELSE RunCatch(terminal, CurrentLine, errorName,
                                 handler.callFinishFunc)
    /\ handler' = Idle(handler.steps)
    /\ lines' = [lines EXCEPT ![CurrentLine].status = "threw",
                              ![CurrentLine].thrown = errorName]
    /\ UNCHANGED functionVars

Init ==
    /\ TerminalInit
    /\ command = RangeCommand
    /\ tempTokens = <<CmdName>>
    /\ resolution = NotCalled
    /\ again = NotCalled
    /\ TokenizerIdle
    /\ EvaluatorIdle
    /\ RegistryIdle
    /\ HistoryIdle
    /\ AnalysisIdle
    /\ StorageIdle

Next ==
    \/ \E text \in Lines : Input(text)
    \/ HandlerPrint
    \/ HandlerOnInterrupt
    \/ \E keys \in BOOLEAN : HandlerSleep(keys)
    \/ \E keys \in BOOLEAN : SleepInterrupt(keys)
    \/ SleepTimeout
    \/ HandlerPrompt
    \/ PromptEnter
    \/ PromptInterrupt
    \/ Interrupt
    \/ HandlerReturn
    \/ \E errorName \in {"IntendedError", "Error"} : HandlerThrow(errorName)

Spec == Init /\ [][Next]_vars

\* the terminal with the lines of DispatchLines and handlers that print,
\* return and throw
DispatchNext ==
    \/ \E text \in DispatchLines : Input(text)
    \/ HandlerPrint
    \/ HandlerReturn
    \/ \E errorName \in {"IntendedError", "Error"} : HandlerThrow(errorName)

DispatchSpec == Init /\ [][DispatchNext]_vars

\* the terminal before the first prompt: init() gives the startup commands
\* to Terminal.input one after the other
StartupInit ==
    /\ terminal = [expectingFinishCommand |-> FALSE,
                   currInputElement |-> "none",
                   outputChannel |-> "user",
                   outputCacheVarName |-> Null,
                   variableCache |-> [n \in VarNames |-> Undefined],
                   interruptCallbackQueue |-> << >>,
                   interruptSignal |-> FALSE,
                   parentNode |-> << >>,
                   callbacksRun |-> << >>,
                   effects |-> [l \in 0..MaxLines |-> NoEffects]]
    /\ lines = << >>
    /\ handler = Idle(0)
    /\ command = RangeCommand
    /\ tempTokens = <<CmdName>>
    /\ resolution = NotCalled
    /\ again = NotCalled
    /\ TokenizerIdle
    /\ EvaluatorIdle
    /\ RegistryIdle
    /\ HistoryIdle
    /\ AnalysisIdle
    /\ StorageIdle

StartupNext ==
    \/ \E text \in StartupLines : StartupCommand(text)
    \/ HandlerPrint
    \/ HandlerOnInterrupt
    \/ HandlerPrompt
    \/ PromptEnter
    \/ HandlerDetach
    \/ HandlerReturn
    \/ \E errorName \in {"IntendedError", "Error"} : HandlerThrow(errorName)

StartupSpec == StartupInit /\ [][StartupNext]_vars

\* the terminal with assignment lines and handlers that print, return and
\* throw
AssignmentNext ==
    \/ \E text \in AssignmentLines : Input(text)
    \/ HandlerPrint
    \/ HandlerReturn
    \/ \E errorName \in {"IntendedError", "Error"} : HandlerThrow(errorName)

AssignmentSpec == Init /\ [][AssignmentNext]_vars

\* the terminal with a command whose handler is not an async function
PlainNext ==
    \/ \E text \in PlainLines : Input(text)
    \/ HandlerPrint
    \/ \E keys \in BOOLEAN : HandlerSleep(keys)
    \/ \E keys \in BOOLEAN : SleepInterrupt(keys)
    \/ SleepTimeout
    \/ HandlerPrompt
    \/ PromptEnter
    \/ PromptInterrupt
    \/ HandlerDetach
    \/ HandlerReturn
    \/ \E errorName \in {"IntendedError", "Error"} : HandlerThrow(errorName)

PlainSpec == Init /\ [][PlainNext]_vars

\* ------------------------------------------------------------------------
\* Properties of the resolver
\* ------------------------------------------------------------------------

\* the call returned {argOptions, parsingError} (it did not throw)
Returned == Called /\ resolution.thrown = "none"

Succeeded == Returned /\ resolution.err.message = NoMessage

Events(kind) == {k \in 1..Len(resolution.log) : resolution.log[k].ev = kind}

Event(k) == resolution.log[k]

\* the tokens parseNamedArgs looked at
NamedTokens == {Event(k).at : k \in {e \in Events("token") : Event(e).phase = "named"}}

\* the tokens the positional loop looked at, in order
PositionalTokens ==
    LET es == {e \in Events("token") : Event(e).phase = "positional"}
    IN {Event(e).at : e \in es}

\* the n-th smallest element of a set of numbers
RECURSIVE Nth(_, _)
Nth(S, n) ==
    LET least == CHOOSE x \in S : \A y \in S : x <= y
    IN IF n = 1 THEN least ELSE Nth(S \ {least}, n - 1)

\* the option a name refers to (0 when none), read from the specification
\* strings of the command
OptionOf(name) == getArgOption(MapArgOptions(command.args), name)

Declared(k) == MapArgOptions(command.args)[k]

\* the options a flag token refers to: the one of a long or single short
\* flag, each character's of a clustered token
FlagNames(tok) ==
    IF StartsWith(tok, <<"-", "-">>) THEN {Slice(tok, 2)}
    ELSE {<<tok[j]>> : j \in 2..Len(tok)}

IsCluster(tok) == IsFlagToken(tok) /\ ~StartsWith(tok, <<"-", "-">>) /\ Len(tok) > 2

\* C2: in the positional pass an option that was given its value by a named
\* flag is skipped: no positional token sets it.
C2_PositionalSkipsFlagOptions ==
    Returned =>
        \A f, q \in Events("set") :
            Event(f).phase = "named" /\ Event(q).phase = "positional"
                => Event(f).opt # Event(q).opt

\* C3: a recognized optional stand-alone flag consumes the following token
\* exactly when its option is not boolean: a boolean flag is set to true and
\* leaves the next token to the positional pass; a non-boolean flag takes
\* the next token (which the positional pass then ignores) and is an error
\* only when there is no next token.
C3_FlagConsumesNextIffNotBoolean ==
    Returned =>
        \A i \in NamedTokens :
            LET tok == At(tempTokens, i)
                k == OptionOf(CHOOSE n \in FlagNames(tok) : TRUE)
                hasNext == i + 1 < Len(tempTokens)
                expects == \E e \in Events("error") :
                              Event(e).at = i /\ Event(e).message.kind = "expects-value"
            IN (IsFlagToken(tok) /\ ~IsCluster(tok) /\ k # 0 /\ Declared(k).optional)
               => IF Declared(k).type = "boolean"
                  THEN /\ \E e \in Events("set") :
                            Event(e).at = i /\ Event(e).opt = k /\ Event(e).value = Bool(TRUE)
                       /\ (hasNext /\ ~IsFlagToken(At(tempTokens, i + 1)) /\ ~resolution.returned)
                             => i + 1 \notin IgnoreIndeces(resolution)
                  ELSE IF hasNext
                  THEN /\ ~expects
                       /\ ~resolution.returned => i + 1 \in IgnoreIndeces(resolution)
                  ELSE expects /\ resolution.err.tokenIndex = i + 1

\* C4: a flag that refers to a non-optional option, in any form and at any
\* position of a clustered token, makes the resolution fail with a parse
\* error.
C4_FlagForRequiredOptionFails ==
    Returned =>
        \A i \in NamedTokens :
            (/\ IsFlagToken(At(tempTokens, i))
             /\ \E n \in FlagNames(At(tempTokens, i)) :
                    OptionOf(n) # 0 /\ ~Declared(OptionOf(n)).optional)
            => resolution.err.message # NoMessage

\* C5: a clustered token in which a character other than the last names an
\* option that is not boolean ends the resolution with a parsing error at
\* that token, not with an exception.
C5_NonBooleanInsideClusterIsParseError ==
    Called =>
        \A i \in NamedTokens :
            LET tok == At(tempTokens, i) IN
            (/\ IsCluster(tok)
             /\ \E j \in 2..(Len(tok) - 1) :
                    OptionOf(<<tok[j]>>) # 0 /\ Declared(OptionOf(<<tok[j]>>)).type # "boolean")
            => /\ resolution.thrown = "none"
               /\ resolution.err.message # NoMessage
               /\ resolution.err.tokenIndex = i

\* C6: first error wins: the message is written at most once, and after it
\* no option is given a value and no further token is looked at.
C6_FirstErrorWins ==
    Called =>
        /\ Cardinality(Events("error")) <= 1
        /\ \A e \in Events("error") :
              \A k \in 1..Len(resolution.log) : k > e => Event(k).ev = "error"

\* C7: after a successful resolution the value of an expanding option that
\* absorbed tokens is exactly those tokens joined by single spaces, and no
\* option declared after it was given a positional token.
C7_ExpandingAbsorbsRest ==
    Succeeded =>
        \A k \in 1..Len(resolution.opts) :
            (resolution.opts[k].expanding /\ resolution.opts[k].hasExpanded)
            => LET first == resolution.opts[k].tokenIndex
                   absorbed == {i \in PositionalTokens : i >= first}
                   text == JoinSpace([n \in 1..Cardinality(absorbed) |->
                                         At(tempTokens, Nth(absorbed, n))])
               IN /\ resolution.opts[k].value = Str(text)
                  /\ \A e \in Events("set") :
                        Event(e).phase = "positional" => Event(e).opt <= k

\* the error kinds a token can cause (all but "missing")
TokenErrors == {e \in Events("error") : Event(e).message.kind # "missing"}

\* C8: when all tokens were processed without error, the resolution fails
\* with a "missing" error that names the first non-optional option whose
\* value was not explicitly set, and it succeeds only if there is none.
C8_MissingNamesFirstUnsetRequired ==
    (Returned /\ TokenErrors = {}) =>
        LET unset == {k \in 1..Len(resolution.opts) :
                         ~Declared(k).optional /\ ~resolution.opts[k].isManuallySetValue}
        IN IF unset = {}
           THEN resolution.err.message = NoMessage
           ELSE /\ resolution.err.message.kind = "missing"
                /\ resolution.err.message.name = Declared(Nth(unset, 1)).name

\* a missing error although tokens were given and two options are required
C8_Witness ==
    /\ Returned
    /\ resolution.err.message.kind = "missing"
    /\ Len(tempTokens) > 2
    /\ Cardinality({k \in 1..Len(resolution.opts) :
                       ~resolution.opts[k].optional
                       /\ ~resolution.opts[k].isManuallySetValue}) > 1

\* the positional tokens: all but the command name and the ones the named
\* pass consumed
Positionals == {i \in 1..(Len(tempTokens) - 1) : i \notin IgnoreIndeces(resolution)}

RangeOf(c) == IF c = RangeCommand THEN <<1, 100>> ELSE <<5, 5>>

\* C10: a number option declared with min~max (or one value, min = max)
\* accepts v exactly when min <= v <= max; outside the range the resolution
\* fails with an error about that option and the option stays unset.
C10_RangeIsInclusive ==
    (Returned /\ ~resolution.returned /\ command \in {RangeCommand, ExactCommand}
      /\ Positionals # {}) =>
        LET i == Nth(Positionals, 1)
            v == _parseNumber(Str(At(tempTokens, i)))
            a == resolution.opts[1]
        IN "val" \in DOMAIN v =>
              IF RangeOf(command)[1] <= v.val /\ v.val <= RangeOf(command)[2]
              THEN /\ a.value = Num(v.val)
                   /\ a.isManuallySetValue
                   /\ resolution.err.message.kind \notin {"at-least", "at-most"}
              ELSE /\ resolution.err.message.kind \in {"at-least", "at-most"}
                   /\ resolution.err.message.name = <<"a">>
                   /\ resolution.err.tokenIndex = i
                   /\ a.value = Undefined
                   /\ ~a.isManuallySetValue

\* the lower bound itself is accepted
C10_Witness ==
    /\ Returned
    /\ command = RangeCommand
    /\ tempTokens = <<CmdName, <<"1">> >>
    /\ resolution.opts[1].value = Num(1)

Tokenized == tokenized # NotCalled

Unquoted(s) == \A k \in 1..Len(s) : s[k] \notin apostropheCharacters

\* the length of the run of characters other than separators that starts s
RunLen(s) ==
    CHOOSE n \in 0..Len(s) :
        /\ \A k \in 1..n : s[k] \notin spaceCharacters
        /\ n = Len(s) \/ s[n + 1] \in spaceCharacters

\* the maximal runs of characters other than separators, in order
RECURSIVE Words(_)
WordsAfter(s, n) ==
    IF n = 0 THEN Words(Tail(s))
    ELSE <<SubSeq(s, 1, n)>> \o Words(SubSeq(s, n + 1, Len(s)))

Words(s) == IF s = << >> THEN << >> ELSE WordsAfter(s, RunLen(s))

\* the length of the run of characters other than separators that ends s
TrailLen(s) ==
    CHOOSE n \in 0..Len(s) :
        /\ \A k \in (Len(s) - n + 1)..Len(s) : s[k] \notin spaceCharacters
        /\ n = Len(s) \/ s[Len(s) - n] \in spaceCharacters

\* the characters accumulated when the text s has been read
Accumulated(s) == SubSeq(s, Len(s) - TrailLen(s) + 1, Len(s))

\* the tokens complete when the text s has been read
Settled(s) == Words(SubSeq(s, 1, Len(s) - TrailLen(s)))

\* positions i < j hold the first quoted span of the input: i the first
\* quote character of the input, j the next occurrence of the same character
FirstSpan(i, j) ==
    /\ i < j
    /\ inputText[i] \in apostropheCharacters
    /\ Unquoted(SubSeq(inputText, 1, i - 1))
    /\ inputText[j] = inputText[i]
    /\ \A k \in (i + 1)..(j - 1) : inputText[k] # inputText[i]

Before(i) == SubSeq(inputText, 1, i - 1)

Between(i, j) == SubSeq(inputText, i + 1, j - 1)

After(j) == SubSeq(inputText, j + 1, Len(inputText))

\* the text a "b c" d and its tokens
ExampleText == <<"a", " ", "\"", "b", " ", "c", "\"", " ", "d">>

ExampleTokens == <<(<<"a">>), (<<"b", " ", "c">>), (<<"d">>)>>

\* what holds of the text outside quotes, and of the example
UnquotedTextSplits ==
    /\ inputText = << >> => tokenized.tokens = << >>
    /\ Unquoted(inputText) =>
          /\ tokenized.tokens = Words(inputText)
          /\ \A k \in 1..Len(tokenized.tokens) : tokenized.tokens[k] # << >>
    /\ tokenize(ExampleText) = ExampleTokens

\* C20 as stated: the input is left as it was; outside quotes the separators
\* split the text into its runs and no token is empty; a quoted span is one
\* token made of exactly the characters between its quotes (the empty token
\* for an empty span), after the words of the text before it and before the
\* tokens of the text after it; the empty input has no token and the example
\* has its three tokens.
C20_QuotedSpanIsOneToken ==
    Tokenized =>
        /\ UnquotedTextSplits
        /\ \A i, j \in 1..Len(inputText) :
              FirstSpan(i, j) =>
                  tokenized.tokens = Words(Before(i)) \o <<Between(i, j)>>
                                         \o tokenize(After(j))

\* C20 amended: as C20, but an opening quote does not end the token being
\* accumulated: the token closed by the closing quote is made of the
\* characters accumulated since the last separator followed by the
\* characters between the quotes, so it is empty only when the span is empty
\* and nothing was accumulated before it.
C20_QuotedSpanExtendsAccumulated ==
    Tokenized =>
        /\ UnquotedTextSplits
        /\ \A i, j \in 1..Len(inputText) :
              FirstSpan(i, j) =>
                  tokenized.tokens =
                      Settled(Before(i))
                          \o <<Accumulated(Before(i)) \o Between(i, j)>>
                          \o tokenize(After(j))

\* a span that holds a separator was closed after a letter: one token a" "
C20_Witness ==
    /\ Tokenized
    /\ \E i, j \in 1..Len(inputText) :
          /\ FirstSpan(i, j)
          /\ Accumulated(Before(i)) # << >>
          /\ \E k \in (i + 1)..(j - 1) : inputText[k] \in spaceCharacters
          /\ Len(tokenized.tokens) = 1

\* ------------------------------------------------------------------------
\* Properties of the dispatcher
\* ------------------------------------------------------------------------

Once == [save |-> 1, updatePath |-> 1, prompt |-> 1]

AtMostOnce(l) ==
    /\ terminal.effects[l].save <= 1
    /\ terminal.effects[l].updatePath <= 1
    /\ terminal.effects[l].prompt <= 1

\* the line is over: Terminal.input returned without a command, Command.run
\* returned, or the handler was interrupted
Over(l) == lines[l].status # "running"

CommandText(l) ==
    IF commandIsAssignment(lines[l].text)
    THEN extractAssignment(lines[l].text).value
    ELSE lines[l].text

\* the command the line names, for a line that names one
CommandOf(l) == getCommand(tokenize(CommandText(l))[1])

NamesCommand(l) ==
    /\ ~isVariable(lines[l].text)
    /\ tokenize(CommandText(l)) # << >>
    /\ tokenize(CommandText(l))[1] \in CommandNames \ {NotFoundName}

\* a handler was called for the current line and has not ended
HandlerRuns == Len(lines) > 0 /\ handler.pc # "idle"

\* the mapping has every form of every option, with the value of the option,
\* and with its default when no token set it
HasEveryForm(mapping, opts) ==
    \A k \in 1..Len(opts) :
        \A f \in 1..Len(opts[k].forms) :
            /\ opts[k].forms[f] \in DOMAIN mapping
            /\ mapping[opts[k].forms[f]] = opts[k].value
            /\ ~opts[k].isManuallySetValue => mapping[opts[k].forms[f]] = opts[k].default

\* C12: when the resolution succeeded for a command that is not in raw-arg
\* mode, the handler is called once, with one mapping that has, for every
\* declared option, each of its forms mapped to the value of the option (its
\* default, or undefined, when no token set it): add 2 3 calls the handler
\* with {a: 2, b: 3}, and ss with s, d and dd undefined.
C12_HandlerReceivesEveryForm ==
    (HandlerRuns /\ NamesCommand(CurrentLine)
        /\ ~CommandOf(CurrentLine).info.rawArgMode) =>
        /\ lines[CurrentLine].calls = 1
        /\ Len(handler.args) = 1
        /\ HasEveryForm(handler.args[1],
                        parseArguments(tokenize(CommandText(CurrentLine)),
                                       CommandOf(CurrentLine)).opts)
        /\ lines[CurrentLine].text = AddName \o <<" ", "2", " ", "3">> =>
               handler.args[1] = (<<"a">> :> Num(2)) @@ (<<"b">> :> Num(3))
        /\ lines[CurrentLine].text = StringName =>
               handler.args[1] = [form \in {<<"s">>, <<"d">>, <<"d", "d">>} |-> Undefined]

\* the handler of ss -d y runs with d and dd both "y" and s undefined
C12_Witness ==
    /\ HandlerRuns
    /\ lines[CurrentLine].text = StringName \o <<" ", "-", "d", " ", "y">>
    /\ handler.args[1][<<"d">>] = Str(<<"y">>)
    /\ handler.args[1][<<"d", "d">>] = Str(<<"y">>)
    /\ handler.args[1][<<"s">>] = Undefined

\* what the display received from the moment the line was entered to the
\* moment the next line was
LineDisplay(l) ==
    SubSeq(terminal.parentNode, lines[l].shown + 1,
           IF l < Len(lines) THEN lines[l + 1].shown ELSE Len(terminal.parentNode))

Shows(l, chunk) == \E k \in 1..Len(LineDisplay(l)) : LineDisplay(l)[k] = chunk

\* the names under which Command.run reports an exception
DefectNames == {"Error", "TypeError", "SyntaxError", "DeveloperError"}

\* C13: when the resolution of the arguments of a line fails, no handler is
\* called for the line, the usage message and the error tagged ParseError
\* are printed, no exception is reported, and the prompt of the next line
\* is opened.
C13_FailedResolutionPrintsUsage ==
    \A l \in 1..Len(lines) :
        lines[l].status = "rejected" =>
            /\ lines[l].calls = 0
            /\ Shows(l, "usage")
            /\ Shows(l, "ParseError")
            /\ \A name \in DefectNames : ~Shows(l, name)
            /\ terminal.effects[l].prompt = 1

\* C13 for the lines whose resolution ends with a parsing error
C13_ParsingErrorPrintsUsage ==
    \A l \in 1..Len(lines) :
        (lines[l].status = "rejected" /\ ~Shows(l, "TypeError")) =>
            /\ lines[l].calls = 0
            /\ Shows(l, "usage")
            /\ Shows(l, "ParseError")
            /\ \A name \in DefectNames : ~Shows(l, name)
            /\ terminal.effects[l].prompt = 1

Suspended == handler.pc \in {"sleeping", "prompting"}

\* the callbacks in the queue were registered by the command of the current
\* line; after an interrupt the queue is empty and the line completed once
InterruptRunsTheCallbacks ==
    /\ \A k \in 1..Len(terminal.interruptCallbackQueue) :
           terminal.interruptCallbackQueue[k] = CurrentLine
    /\ \A l \in 1..Len(lines) :
           lines[l].status = "interrupted" =>
               /\ l = CurrentLine => terminal.interruptCallbackQueue = << >>
               /\ terminal.effects[l] = Once

\* C17: a handler that waits for a sleep or a prompt when an interrupt is
\* raised does not go on from there; the callbacks it registered have run,
\* the queue is empty and the line completed exactly once; no callback of
\* one command is left for a later one.
C17_InterruptedHandlerDoesNotResume ==
    /\ [][(Suspended /\ handler.raised) => handler'.pc # "running"]_vars
    /\ []InterruptRunsTheCallbacks

\* the number of characters of the text up to the end of its first token as
\* it is written, quotes and the whitespace before it included
CommandTokenEnd(text) ==
    CHOOSE p \in 0..Len(text) :
        /\ tokenize(SubSeq(text, 1, p) \o <<" ">>) = <<tokenize(text)[1]>>
        /\ \A q \in 0..(p - 1) :
               tokenize(SubSeq(text, 1, q) \o <<" ">>) # <<tokenize(text)[1]>>

\* the part of the text that follows its first token
AfterCommandToken(text) == SubSeq(text, CommandTokenEnd(text) + 1, Len(text))

RawLine(l) == NamesCommand(l) /\ CommandOf(l).info.rawArgMode

\* C18: the handler of a command in raw-arg mode is called with exactly the
\* part of the line that follows the token of the command name, whatever
\* precedes the name (whitespace, a quote, an assignment), and no line of
\* such a command is rejected by the resolver.
C18_RawHandlerReceivesRemainder ==
    /\ \A l \in 1..Len(lines) : RawLine(l) => lines[l].status # "rejected"
    /\ (HandlerRuns /\ RawLine(CurrentLine)) =>
           handler.args = <<AfterCommandToken(CommandText(CurrentLine))>>

\* the display after the echo of the current line
Shown ==
    SubSeq(terminal.parentNode, lines[CurrentLine].shown + 2, Len(terminal.parentNode))

\* the texts the variable of the current line holds
Captured == terminal.variableCache[extractAssignment(lines[CurrentLine].text).name]

CountOut(chunks) == Len(SelectSeq(chunks, LAMBDA c : c = "out"))

AssignmentRuns == HandlerRuns /\ commandIsAssignment(lines[CurrentLine].text)

\* C19 as stated: while the command of a line $name = ... runs, the variable
\* holds what the command has printed since the line began and the display
\* has received none of it.
C19_OutputGoesToVariableOnly ==
    AssignmentRuns =>
        /\ Captured # Undefined
        /\ CountOut(Captured.out) = handler.printed
        /\ Shown = << >>

\* C19 amended: while the command of a line $name = ... runs, the variable
\* holds what the command has printed since the line began, and the display
\* has received the same texts in the same order.
C19_OutputGoesToVariableAndDisplay ==
    AssignmentRuns =>
        /\ Captured # Undefined
        /\ CountOut(Captured.out) = handler.printed
        /\ Shown = Captured.out

\* the command of the second line $x=... has printed once, after the command
\* of a first line $x=... had printed too
C19_Witness ==
    /\ AssignmentRuns
    /\ CurrentLine = 2
    /\ commandIsAssignment(lines[1].text)
    /\ Shows(1, "out")
    /\ handler.printed = 1
    /\ Captured.out = <<"out">>

\* the number of times the display received the chunk for the line
TimesShown(l, chunk) == Len(SelectSeq(LineDisplay(l), LAMBDA c : c = chunk))

\* C14: when the handler of a line throws IntendedError nothing is
\* reported, when it throws anything else the exception is reported exactly
\* once, and in both cases the line completes once.
C14_HandlerFailureIsCaught ==
    \A l \in 1..Len(lines) :
        /\ lines[l].thrown = "IntendedError" =>
               /\ \A name \in DefectNames \cup {"IntendedError"} : ~Shows(l, name)
               /\ terminal.effects[l] = Once
        /\ lines[l].thrown \in DefectNames =>
               /\ TimesShown(l, lines[l].thrown) = 1
               /\ terminal.effects[l] = Once

\* C15: the completion step of a line does not happen while the handler
\* called for the line has not ended.
C15_CompletionAfterHandler ==
    \A l \in 1..Len(lines) :
        terminal.effects[l].save > 0 => ~(l = CurrentLine /\ handler.pc # "idle")

\* C16: the prompt of the next line is not open while a handler runs, and
\* no line opens it more than once.
C16_NoPromptWhileHandlerRuns ==
    /\ terminal.currInputElement = "top" => handler.pc = "idle"
    /\ \A l \in 1..Len(lines) : terminal.effects[l].prompt <= 1

\* ------------------------------------------------------------------------
\* Properties of the evaluator
\* ------------------------------------------------------------------------

Evaluated == evaluated # NotCalled

\* the nesting depth after the first i characters of s
Depth(s, i) ==
    Cardinality({k \in 1..i : s[k] = "("}) - Cardinality({k \in 1..i : s[k] = ")"})

Balanced(s) == Depth(s, Len(s)) = 0 /\ \A i \in 1..Len(s) : Depth(s, i) >= 0

\* the positions of op at depth 0
TopLevel(s, op) == {i \in 1..Len(s) : s[i] = op /\ Depth(s, i) = 0}

ScanOrder == <<"+", "-", "*", "/", "^">>

HasTopLevelOperator(s) == \E o \in 1..Len(ScanOrder) : TopLevel(s, ScanOrder[o]) # {}

\* the first operator of the order that occurs at depth 0, and its last
\* occurrence at depth 0
SplitOperator(s) ==
    ScanOrder[CHOOSE o \in 1..Len(ScanOrder) :
                /\ TopLevel(s, ScanOrder[o]) # {}
                /\ \A q \in 1..(o - 1) : TopLevel(s, ScanOrder[q]) = {}]

SplitPosition(s) ==
    CHOOSE i \in TopLevel(s, SplitOperator(s)) : \A k \in TopLevel(s, SplitOperator(s)) : k <= i

\* what the two evaluated sides give under the operator
OfSides(op, left, right) ==
    IF ~IsNumber(left) THEN left
    ELSE IF ~IsNumber(right) THEN right
    ELSE IF op = "/" /\ IsZero(right) THEN [fail |-> "divide-by-zero"]
    ELSE ApplyOperator(op, left, right)

SplitValue(s) ==
    OfSides(SplitOperator(s),
            _parseNumber(Str(SubSeq(s, 1, SplitPosition(s) - 1))),
            _parseNumber(Str(SubSeq(s, SplitPosition(s) + 1, Len(s)))))

\* the text reaches the operator passes with an operator to split at
SplitsAtOperator(s) ==
    /\ Len(s) > 0
    /\ s[1] # "-"
    /\ Balanced(s)
    /\ HasTopLevelOperator(s)

\* C21: a text with balanced parentheses and no leading "-" that has a
\* binary operator at depth 0 evaluates to what its two sides give, split
\* at the last depth-0 occurrence of the first of +, -, *, /, ^ that occurs
\* at depth 0; 2+3+4 is 9, 8/4/2 is 1 and 2^3^2 is 64
C21_SplitsAtLastOccurrenceOfFirstOperator ==
    Evaluated =>
        /\ SplitsAtOperator(expression) => evaluated = SplitValue(expression)
        /\ expression = <<"2", "+", "3", "+", "4">> => evaluated = [val |-> 9]
        /\ expression = <<"8", "/", "4", "/", "2">> => evaluated = [val |-> 1]
        /\ expression = <<"2", "^", "3", "^", "2">> => evaluated = [val |-> 64]

C21_Witness ==
    /\ Evaluated
    /\ expression = <<"2", "/", "2", "/", "2">>
    /\ SplitsAtOperator(expression)
    /\ SplitOperator(expression) = "/"
    /\ SplitPosition(expression) = 4
    /\ evaluated = [frac |-> <<1, 2>>]

\* C22: a text whose parentheses are unbalanced (the depth is negative
\* somewhere or is not 0 at the end) evaluates to a failure, never to a
\* number
C22_UnbalancedParenthesesFail ==
    Evaluated /\ ~Balanced(expression) => "fail" \in DOMAIN evaluated

\* the value v is outside the domain of the function
OutsideDomain(functionStr, v) ==
    \/ functionStr = <<"s", "q", "r", "t">> /\ Numer(v) < 0
    \/ /\ functionStr \in {<<"a", "r", "c", "s", "i", "n">>, <<"a", "r", "c", "c", "o", "s">>}
       /\ (Numer(v) < 0 - Denom(v) \/ Numer(v) > Denom(v))
    \/ functionStr = <<"a", "r", "c", "c", "o", "s", "h">> /\ Numer(v) < Denom(v)
    \/ /\ functionStr = <<"a", "r", "c", "t", "a", "n", "h">>
       /\ (Numer(v) <= 0 - Denom(v) \/ Numer(v) >= Denom(v))

\* the text is a division at its split position whose right-hand operand
\* evaluates to 0, after a left-hand operand that evaluates to a number
DivisionByZero(s) ==
    /\ SplitsAtOperator(s)
    /\ SplitOperator(s) = "/"
    /\ IsNumber(_parseNumber(Str(SubSeq(s, 1, SplitPosition(s) - 1))))
    /\ IsZero(_parseNumber(Str(SubSeq(s, SplitPosition(s) + 1, Len(s)))))

\* C23: a division whose right-hand operand evaluates to 0 fails with the
\* division-by-zero error, and a function applied to a value outside its
\* domain fails with the domain error
C23_UndefinedOperationsFail ==
    Evaluated =>
        /\ DivisionByZero(expression) => evaluated = [fail |-> "divide-by-zero"]
        /\ \A j \in 1..Len(allowedFunctions), a \in ArgumentTexts :
              /\ expression = allowedFunctions[j] \o <<"(">> \o a \o <<")">>
              /\ IsRational(_parseNumber(Str(a)))
              /\ OutsideDomain(allowedFunctions[j], _parseNumber(Str(a)))
              => evaluated = [fail |-> "domain"]

C23_Witness ==
    /\ Evaluated
    /\ expression = <<"0", "/", "(", "2", "-", "2", ")">>
    /\ DivisionByZero(expression)
    /\ evaluated = [fail |-> "divide-by-zero"]

\* the quote character that is open when the text s has been read, "" when
\* there is none
RECURSIVE QuoteAfter(_)
QuoteAfterLast(open, char) ==
    IF open # "" THEN (IF char = open THEN "" ELSE open)
    ELSE IF char \in apostropheCharacters THEN char ELSE ""

QuoteAfter(s) ==
    IF s = << >> THEN "" ELSE QuoteAfterLast(QuoteAfter(SubSeq(s, 1, Len(s) - 1)), s[Len(s)])

\* position i holds a quote character that opens a span and is never closed
NeverClosed(i) ==
    /\ inputText[i] \in apostropheCharacters
    /\ QuoteAfter(Before(i)) = ""
    /\ \A k \in (i + 1)..Len(inputText) : inputText[k] # inputText[i]

\* the token being accumulated when the text s, which ends outside quotes,
\* has been read, and the tokens complete by then
Pending(s) ==
    IF s = << >> \/ s[Len(s)] \in spaceCharacters \cup apostropheCharacters THEN << >>
    ELSE tokenize(s)[Len(tokenize(s))]

Complete(s) ==
    IF Pending(s) = << >> THEN tokenize(s)
    ELSE SubSeq(tokenize(s), 1, Len(tokenize(s)) - 1)

\* the final token made of the text t, none when t is empty
FinalToken(t) == IF t = << >> THEN << >> ELSE <<t>>

IsTokenSequence(ts) ==
    /\ DOMAIN ts = 1..Len(ts)
    /\ \A k \in 1..Len(ts) : \A c \in 1..Len(ts[k]) : ts[k][c] \in InputAlphabet

\* C28: tokenize returns a sequence of tokens for every input; when a quote
\* is never closed, the last token is the text accumulated up to the end of
\* the input (the token under way at the quote followed by the characters
\* after it) when that text is not empty, after the tokens complete before
\* the quote; a "b has the tokens a and b
C28_UnclosedQuoteEmitsFinalToken ==
    Tokenized =>
        /\ IsTokenSequence(tokenized.tokens)
        /\ \A i \in 1..Len(inputText) :
              NeverClosed(i) =>
                  tokenized.tokens = Complete(Before(i))
                                         \o FinalToken(Pending(Before(i)) \o After(i))
        /\ tokenize(<<"a", " ", "\"", "b">>) = <<(<<"a">>), (<<"b">>)>>

C28_Witness ==
    /\ Tokenized
    /\ inputText = <<"a", " ", "\"", "a">>
    /\ NeverClosed(3)
    /\ tokenized.tokens = <<(<<"a">>), (<<"a">>)>>

\* the token after token i is a value the option k accepts
AcceptsNext(i, k) ==
    /\ i + 1 < Len(tempTokens)
    /\ At(tempTokens, i + 1) # << >>
    /\ CASE Declared(k).type = "number" ->
                "val" \in DOMAIN _parseNumber(Str(At(tempTokens, i + 1)))
         [] Declared(k).type = "enum" ->
                \E n \in 1..Len(Declared(k).enumOptions.list) :
                    Declared(k).enumOptions.list[n] = At(tempTokens, i + 1)
         [] OTHER -> Declared(k).type = "string"

\* token i is a clustered token whose characters before the last name
\* optional boolean options and whose last character names the optional
\* option k
ClusterEndsWith(i, k) ==
    LET tok == At(tempTokens, i) IN
    /\ IsCluster(tok)
    /\ \A j \in 2..(Len(tok) - 1) :
          /\ OptionOf(<<tok[j]>>) # 0
          /\ Declared(OptionOf(<<tok[j]>>)).optional
          /\ Declared(OptionOf(<<tok[j]>>)).type = "boolean"
    /\ k = OptionOf(<<tok[Len(tok)]>>)
    /\ k # 0
    /\ Declared(k).optional

\* the value the token after token i gives to the option k
NextValue(i, k) ==
    IF Declared(k).type = "number"
    THEN Num(_parseNumber(Str(At(tempTokens, i + 1))).val)
    ELSE Str(At(tempTokens, i + 1))

\* the named pass ended with an exception at token i
ThrownAt(i) == resolution.thrown # "none" /\ resolution.phase = "named" /\ resolution.cur = i

ErrorAt(i) == \E e \in Events("error") : Event(e).at = i

\* the value option k holds after its last assignment at token i
SetAt(i, k, value) ==
    \E e \in Events("set") :
        /\ Event(e).at = i /\ Event(e).opt = k /\ Event(e).value = value
        /\ \A f \in Events("set") : Event(f).at = i /\ Event(f).opt = k => f <= e

\* C29: the last character of a clustered token is resolved like a
\* stand-alone short flag: a boolean option is set to true, and an option
\* of another type takes the next token as its value, without an error or
\* an exception when that token is valid for the type
C29_LastOfClusterIsStandAloneFlag ==
    Called =>
        \A i \in NamedTokens : \A k \in 1..Len(command.args) :
            ClusterEndsWith(i, k) =>
                IF Declared(k).type = "boolean"
                THEN ~ThrownAt(i) /\ ~ErrorAt(i) /\ SetAt(i, k, Bool(TRUE))
                ELSE AcceptsNext(i, k) =>
                        /\ ~ThrownAt(i)
                        /\ ~ErrorAt(i)
                        /\ SetAt(i, k, NextValue(i, k))

\* token i is the first flag of the line: a stand-alone flag of the optional
\* option k, which is not boolean and accepts the token after it
FlagTakesNext(i, k) ==
    /\ IsFlagToken(At(tempTokens, i))
    /\ ~IsCluster(At(tempTokens, i))
    /\ \A h \in 0..(i - 1) : ~IsFlagToken(At(tempTokens, h))
    /\ k = OptionOf(CHOOSE n \in FlagNames(At(tempTokens, i)) : TRUE)
    /\ k # 0
    /\ Declared(k).optional
    /\ Declared(k).type # "boolean"
    /\ AcceptsNext(i, k)

\* the named pass treated token i as a flag: it assigned an option or wrote
\* an error or raised an exception while it was at that token
HandledAsFlag(i) ==
    \/ \E e \in Events("set") \cup Events("error") :
          Event(e).at = i /\ Event(e).phase = "named"
    \/ ThrownAt(i)

\* C30: the token taken as the value of a non-boolean named option is not
\* also handled as a flag by the named pass, even when it matches the flag
\* pattern
C30_ValueTokenIsNotAFlag ==
    Called =>
        \A i \in NamedTokens : \A k \in 1..Len(command.args) :
            FlagTakesNext(i, k) =>
                /\ SetAt(i, k, NextValue(i, k))
                /\ ~HandledAsFlag(i + 1)

\* ------------------------------------------------------------------------
\* Properties of the registration
\* ------------------------------------------------------------------------

\* some specification string of the command has an unknown type code
HasUnknownTypeCode(c) ==
    \E k \in 1..Len(c.args) : "thrown" \in DOMAIN parseArgOptions(c.args[k])

\* C24: an unknown type code in a specification string is raised as an
\* error when the command is registered, and a later check of a line for
\* the command does not answer it with the ordinary result false
C24_UnknownTypeCodeRaisedAtRegistration ==
    HasUnknownTypeCode(command) =>
        /\ registration # NotCalled => registration.thrown = "DeveloperError"
        /\ checked # NotCalled => checked # [result |-> FALSE]

\* ------------------------------------------------------------------------
\* Properties of the prompt of the idle terminal
\* ------------------------------------------------------------------------

\* "!!" followed by a digit can be read as "!!" or as "!" and a reference
Unambiguous(text) ==
    \A p \in 0..(Len(text) - 3) :
        ~(At(text, p) = "!" /\ At(text, p + 1) = "!" /\ At(text, p + 2) \in Digits)

\* the typed text with every reference replaced, each by the entry it names
\* in the given history, from position p (0-based)
RECURSIVE Expanded(_, _, _)
Expanded(text, p, h) ==
    IF p >= Len(text) THEN << >>
    ELSE IF At(text, p) = "!" /\ DigitPrefix(Slice(text, p + 1)) # << >>
    THEN LET n == DecimalValue(DigitPrefix(Slice(text, p + 1)))
         IN (IF n \in 1..Len(h) /\ h[n] # << >>
             THEN h[n] ELSE <<"!">> \o DigitPrefix(Slice(text, p + 1)))
                \o Expanded(text, p + 1 + Len(DigitPrefix(Slice(text, p + 1))), h)
    ELSE IF p + 1 < Len(text) /\ At(text, p) = "!" /\ At(text, p + 1) = "!"
    THEN (IF h = << >> THEN << >> ELSE h[Len(h)]) \o Expanded(text, p + 2, h)
    ELSE <<At(text, p)>> \o Expanded(text, p + 1, h)

BeginsWithAlias(text) == \E a \in 1..Len(aliases) : StartsWith(text, aliases[a].alias)

\* C25: when inputCleaning is true, the text the prompt resolves with (the
\* one that is dispatched, and recorded when it is not empty) is the typed
\* text with every !N replaced by the N-th entry of the history and every !!
\* by the last entry
C25_ReferencesExpandedAgainstHistory ==
    (entered # NotCalled /\ Unambiguous(entered.typed)
        /\ ~BeginsWithAlias(Expanded(entered.typed, 0, entered.before)))
    => /\ entered.text = Expanded(entered.typed, 0, entered.before)
       /\ entered.text # << >> => history[Len(history)] = entered.text

C27_RepeatedLineIsNotResolvedAgain == analysis.repeated => ~analysis.ran

\* ------------------------------------------------------------------------
\* Properties of the position of a parsing error
\* ------------------------------------------------------------------------

\* the errors about something that is not there
AbsentKinds == {"missing", "expects-value"}

\* C31: when parseArguments returns with parsingError.message set,
\* parsingError.tokenIndex is a number: the index of a token of the line,
\* the one the loop was at when the error was written (or the one after it,
\* for a value that is expected), or, for a missing argument and for a
\* value expected after the last token, an index at or beyond the number of
\* tokens
C31_ErrorCarriesTokenIndex ==
    (Returned /\ resolution.err.message # NoMessage)
    => /\ resolution.err.tokenIndex # UndefIndex
       /\ resolution.err.tokenIndex >= 0
       /\ \/ /\ resolution.err.tokenIndex < Len(tempTokens)
             /\ resolution.err.tokenIndex
                    = resolution.cur
                        + (IF resolution.err.message.kind = "expects-value" THEN 1 ELSE 0)
          \/ /\ resolution.err.tokenIndex >= Len(tempTokens)
             /\ resolution.err.message.kind \in AbsentKinds
       /\ resolution.err.message.kind = "missing"
              => resolution.err.tokenIndex >= Len(tempTokens)

\* a value of a flag is rejected: the error carries the index of the flag
C31_Witness ==
    /\ Returned
    /\ resolution.err.message # NoMessage
    /\ resolution.err.message.kind = "invalid-option"
    /\ resolution.phase = "named"
    /\ resolution.err.tokenIndex = 1
    /\ Len(tempTokens) = 3

\* ------------------------------------------------------------------------
\* Properties of assignment lines
\* ------------------------------------------------------------------------

\* the position of the first "=" of a text that has one
FirstEquals(text) == CHOOSE p \in 1..Len(text) : text[p] = "=" /\ \A q \in 1..(p - 1) : text[q] # "="

\* the entire text after the first "="
AfterFirstEquals(text) == SubSeq(text, FirstEquals(text) + 1, Len(text))

\* the arguments the handler of a command is called with when the text is
\* the one dispatched
ArgsFor(rest) ==
    IF getCommand(tokenize(rest)[1]).info.rawArgMode
    THEN <<Slice(rest, Len(tokenize(rest)[1]))>>
    ELSE <<valueObject(parseArguments(tokenize(rest), getCommand(tokenize(rest)[1])).opts)>>

\* C32: for a line $name = rest the text that is tokenized and dispatched is
\* the entire text after the first "=", later "=" included: the handler is
\* called with the arguments that text gives
C32_AssignmentRunsEntireRemainder ==
    AssignmentRuns
    => handler.args = ArgsFor(AfterFirstEquals(lines[CurrentLine].text))

\* ------------------------------------------------------------------------
\* Properties of the failures of the evaluator
\* ------------------------------------------------------------------------

\* the sentinel, with the kind of the message error() was called with
IsFailure(r) == DOMAIN r = {"fail"}

\* the text is f(a) for the function f, the closing parenthesis being the
\* one of the call
IsCallOf(s, f) ==
    /\ Len(s) >= Len(f) + 2
    /\ SubSeq(s, 1, Len(f) + 1) = f \o <<"(">>
    /\ s[Len(s)] = ")"
    /\ \A i \in 0..(Len(s) - Len(f) - 2) :
           Depth(SubSeq(s, Len(f) + 2, Len(s) - 1), i) >= 0

ArgumentOf(s, f) == SubSeq(s, Len(f) + 2, Len(s) - 1)

LeftOf(s) == SubSeq(s, 1, SplitPosition(s) - 1)

RightOf(s) == SubSeq(s, SplitPosition(s) + 1, Len(s))

\* C33: no text makes the evaluator throw, and the failure of a part is the
\* result of the whole: of the text after a leading "-", of the argument of
\* a function call, of the left side of a split, and of the right side when
\* the left side has a value (the failure of the left side comes first)
C33_FailurePropagatesUnchanged ==
    Evaluated =>
        /\ "thrown" \notin DOMAIN evaluated
        /\ (Len(expression) > 0 /\ expression[1] = "-"
               /\ IsFailure(_parseNumber(Str(Tail(expression)))))
           => evaluated = _parseNumber(Str(Tail(expression)))
        /\ \A j \in 1..Len(allowedFunctions) :
              (IsCallOf(expression, allowedFunctions[j])
                 /\ IsFailure(_parseNumber(Str(ArgumentOf(expression, allowedFunctions[j])))))
              => evaluated = _parseNumber(Str(ArgumentOf(expression, allowedFunctions[j])))
        /\ SplitsAtOperator(expression)
           => /\ IsFailure(_parseNumber(Str(LeftOf(expression))))
                 => evaluated = _parseNumber(Str(LeftOf(expression)))
              /\ (IsNumber(_parseNumber(Str(LeftOf(expression))))
                   /\ IsFailure(_parseNumber(Str(RightOf(expression)))))
                 => evaluated = _parseNumber(Str(RightOf(expression)))

\* 2/0+ : the left side fails by the division, the right side is empty
C33_Witness ==
    /\ Evaluated
    /\ expression = <<"2", "/", "0", "+">>
    /\ _parseNumber(Str(LeftOf(expression))) = [fail |-> "divide-by-zero"]
    /\ _parseNumber(Str(RightOf(expression))) = [fail |-> "invalid-number"]
    /\ evaluated = [fail |-> "divide-by-zero"]

\* the text is a function call, or a text in parentheses, whose last
\* character is the parenthesis that closes the first one
IsCall(s) ==
    /\ Balanced(s)
    /\ \E j \in 1..Len(allowedFunctions) : IsCallOf(s, allowedFunctions[j])

\* the positions that part the text into a call, an operator and a call
PairPositions(s) ==
    {p \in 2..(Len(s) - 1) :
        /\ s[p] \in {"+", "-", "*", "/", "^"}
        /\ IsCall(SubSeq(s, 1, p - 1))
        /\ IsCall(SubSeq(s, p + 1, Len(s)))}

\* C34: a text made of a function call (or a text in parentheses), a binary
\* operator and a second call is not taken as one call: it evaluates to what
\* the operator gives for the values of the two calls;
\* (1+2)*(3+4) is 21
C34_CallFollowedByOperatorIsBinary ==
    Evaluated =>
        /\ \A p \in PairPositions(expression) :
              evaluated = OfSides(expression[p],
                                  _parseNumber(Str(SubSeq(expression, 1, p - 1))),
                                  _parseNumber(Str(SubSeq(expression, p + 1,
                                                          Len(expression)))))
        /\ expression = <<"(", "1", "+", "2", ")", "*", "(", "3", "+", "4", ")">>
              => evaluated = [val |-> 21]

C34_Witness ==
    /\ Evaluated
    /\ expression = <<"s", "q", "r", "t", "(", "2", "+", "2", ")", "/", "(", "2", ")">>
    /\ PairPositions(expression) = {10}
    /\ evaluated = [val |-> 1]

\* ------------------------------------------------------------------------
\* Properties of the text after a quote that is never closed
\* ------------------------------------------------------------------------

\* no quote character after position i
NoQuoteAfter(i) ==
    \A k \in (i + 1)..Len(inputText) : inputText[k] \notin apostropheCharacters

\* a whitespace character after position i, with a letter somewhere after it
SpaceInside(i) ==
    \E k \in (i + 1)..Len(inputText) :
        /\ inputText[k] \in spaceCharacters
        /\ \E n \in (k + 1)..Len(inputText) : inputText[n] = "a"

\* C35 as stated: when a quote is never closed, the characters after it are
\* read as they are outside quotes, whitespace separating the tokens (the
\* tokens are those of the text without the quote), and no error is raised
C35_UnclosedQuoteRestIsSplit ==
    Tokenized =>
        /\ "tokens" \in DOMAIN tokenized
        /\ \A i \in 1..Len(inputText) :
              NeverClosed(i) /\ NoQuoteAfter(i) =>
                  tokenized.tokens = tokenize(Before(i) \o After(i))

\* C35: when a quote is never closed, every character after it, whitespace
\* included, is added to the token under way, which is the one last token
\* after the tokens complete before the quote; no error is raised
C35_UnclosedQuoteRestIsOneToken ==
    Tokenized =>
        /\ "tokens" \in DOMAIN tokenized
        /\ \A i \in 1..Len(inputText) :
              NeverClosed(i) /\ After(i) # << >> =>
                  /\ Len(tokenized.tokens) = Len(Complete(Before(i))) + 1
                  /\ tokenized.tokens[Len(tokenized.tokens)]
                         = Pending(Before(i)) \o After(i)

C35_Witness ==
    /\ Tokenized
    /\ inputText = <<"\"", "a", " ", "a">>
    /\ NeverClosed(1)
    /\ SpaceInside(1)
    /\ tokenized.tokens = <<(<<"a", " ", "a">>)>>

\* ------------------------------------------------------------------------
\* Properties of a run without the completion callback
\* ------------------------------------------------------------------------

\* this step is the start of Command.run for a line given with testMode
StartsOptedOut ==
    /\ Len(lines') = Len(lines) + 1
    /\ lines'[Len(lines')].testMode
    /\ lines'[Len(lines')].status \in {"running", "rejected"}

\* this step is the end of Command.run for a line given with testMode: the
\* handler returned or threw, or run went on without it
EndsOptedOut ==
    /\ Len(lines') = Len(lines)
    /\ CurrentLine > 0
    /\ lines[CurrentLine].testMode
    /\ lines[CurrentLine].status = "running"
    /\ lines'[CurrentLine].status \in {"returned", "threw"}

\* the channel Terminal.input sets before the command runs
ChannelFor(text) ==
    IF commandIsAssignment(text) THEN "cache_and_user" ELSE "user"

\* C36: a run with callFinishFunc false does not set expectingFinishCommand
\* and does not call finishCommand, when the handler returns, when it throws
\* and when the arguments are rejected: the flag, the saves of the file
\* system, the updates of the path, the prompts and the input element are
\* as before, and the channel of an assignment is not set back
C36_OptedOutRunNeverCompletes ==
    [][/\ (StartsOptedOut \/ EndsOptedOut) =>
              /\ terminal'.expectingFinishCommand = terminal.expectingFinishCommand
              /\ terminal'.effects = terminal.effects
              /\ terminal'.currInputElement = terminal.currInputElement
       /\ StartsOptedOut =>
              terminal'.outputChannel = ChannelFor(lines'[Len(lines')].text)
       /\ EndsOptedOut => terminal'.outputChannel = terminal.outputChannel]_vars

C36_Witness ==
    /\ Len(lines) = 2
    /\ lines[1].testMode /\ lines[1].status = "threw"
    /\ lines[2].testMode /\ lines[2].status = "returned"
    /\ commandIsAssignment(lines[2].text)
    /\ terminal.outputChannel = "cache_and_user"
    /\ ~terminal.expectingFinishCommand
    /\ \A l \in 0..MaxLines : terminal.effects[l] = NoEffects

\* ------------------------------------------------------------------------
\* Properties of the recorded history
\* ------------------------------------------------------------------------

\* the commands with each one that equals the one before it left out
RECURSIVE Collapsed(_)
Collapsed(cmds) ==
    IF Len(cmds) <= 1 THEN cmds
    ELSE LET front == Collapsed(SubSeq(cmds, 1, Len(cmds) - 1))
         IN IF cmds[Len(cmds)] = cmds[Len(cmds) - 1] THEN front
            ELSE Append(front, cmds[Len(cmds)])

\* the last n entries of the sequence (all of them when it has fewer)
LastEntries(seq, n) ==
    IF Len(seq) <= n THEN seq ELSE SubSeq(seq, Len(seq) - n + 1, Len(seq))

\* C37: after any calls of addToHistory from the empty history on, with the
\* setting maxHistoryLength unchanged, the history is the newest
\* maxHistoryLength of the commands recorded, in the order of the calls (a
\* command that equals the entry before it is not recorded); no two
\* neighbours are equal and there are at most maxHistoryLength entries
C37_HistoryIsBoundedOrderedAndCollapsed ==
    recorded # NotCalled =>
        /\ Len(history) <= recorded.maxHistoryLength
        /\ \A i \in 1..(Len(history) - 1) : history[i] # history[i + 1]
        /\ recorded.maxHistoryLength >= 1 =>
               history = LastEntries(Collapsed(recorded.commands),
                                     recorded.maxHistoryLength)

C37_Witness ==
    /\ recorded # NotCalled
    /\ recorded.maxHistoryLength = 2
    /\ recorded.commands = <<(<<"a">>), (<<"a">>), (<<"b">>), (<<" ", "a">>)>>
    /\ history = <<(<<"b">>), (<<" ", "a">>)>>

\* ------------------------------------------------------------------------
\* Properties of the output channel at the prompt
\* ------------------------------------------------------------------------

\* C38: whenever the prompt of the next line is open the output channel is
\* USER, so that what is typed or printed from then on goes to no variable;
\* also after an assignment line with nothing after the "="
C38_ChannelIsUserAtPrompt ==
    terminal.currInputElement = "top" => terminal.outputChannel = "user"

\* ------------------------------------------------------------------------
\* Properties of the dumping of files
\* ------------------------------------------------------------------------

DumpReturned == storage # NotCalled /\ storage.pc = "returned"

\* the text files still in the tree, and those of them with a parent link
Remaining(files) ==
    {getAllFiles(files, 1)[k] : k \in 1..Len(getAllFiles(files, 1))}
        \cap TextFiles(files)

Deletable(files) == {i \in Remaining(files) : files[i].parent # 0}

\* C39: dumpTooLargeFiles returns for every tree and limit, and when it has
\* returned the size of the tree is at most the limit or no text file with a
\* parent is left in the tree
C39_DumpTerminatesWithinLimit ==
    /\ <>DumpReturned
    /\ [](DumpReturned =>
             \/ computeSize(storage.files, 1) <= storage.fileSizeLimit
             \/ Deletable(storage.files) = {})

\* ------------------------------------------------------------------------
\* Properties of the leading minus
\* ------------------------------------------------------------------------

\* the negative of what the operator gives for the two digits
NegatedOperation(op, a, b) ==
    IF IsNumber(OfSides(op, [val |-> DigitValue(a)], [val |-> DigitValue(b)]))
    THEN Negate(OfSides(op, [val |-> DigitValue(a)], [val |-> DigitValue(b)]))
    ELSE OfSides(op, [val |-> DigitValue(a)], [val |-> DigitValue(b)])

\* C40: a leading "-" negates the value of all that follows it: -a op b is
\* -(a op b) for the digits a, b and each operator (-2+3 is -5, -2^2 is
\* -4), and a text that begins with "-" has the negated value of the rest,
\* or its failure; 0-2+3 is 1
C40_LeadingMinusNegatesTheRest ==
    Evaluated =>
        /\ \A a \in Digits, b \in Digits, o \in 1..Len(operators) :
              expression = <<"-", a, operators[o], b>> =>
                  evaluated = NegatedOperation(operators[o], a, b)
        /\ StartsWith(expression, <<"-">>) =>
              evaluated = (IF IsNumber(_parseNumber(Str(Slice(expression, 1))))
                           THEN Negate(_parseNumber(Str(Slice(expression, 1))))
                           ELSE _parseNumber(Str(Slice(expression, 1))))
        /\ expression = <<"-", "2", "+", "3">> => evaluated = [val |-> -5]
        /\ expression = <<"-", "2", "^", "2">> => evaluated = [val |-> -4]
        /\ expression = <<"0", "-", "2", "+", "3">> => evaluated = [val |-> 1]

C40_Witness ==
    /\ Evaluated
    /\ expression = <<"-", "2", "+", "3">>
    /\ evaluated = [val |-> -5]
    /\ evaluated # [val |-> 1]

====
